---- MODULE Spec2Model ----
(***************************************************************************)
(* GPT QualMaster MCP server (src/server.py): the knowledge tables, the    *)
(* lookup and search handlers, the quality rubric scorer, the vector       *)
(* search adapter and the JSON-RPC endpoint, as a state machine.           *)
(*                                                                         *)
(* Text is a sequence of Unicode code points (Python str).  ASCII text is  *)
(* written Chars("..."); other characters are written by code point, e.g.  *)
(* <<44160, 51613>> is U+AC80 U+C99D.                                      *)
(***************************************************************************)
EXTENDS Integers, Sequences, FiniteSets, TLC

----------------------------------------------------------------------------
(* Bounds of the model *)

\* number of fragments a research_description is assembled from
MaxFragments == 2
\* length of the strategies_used list
MaxStrategies == 1
\* number of documents held by the vector index
MaxDocs == 4

----------------------------------------------------------------------------
(* Python str primitives *)

\* printable ASCII from code point 32; positions of 34, 92 and 96 hold a blank
ASCII == " ! #$%&'()*+,-./0123456789:;<=>?@ABCDEFGHIJKLMNOPQRSTUVWXYZ[ ]^_ abcdefghijklmnopqrstuvwxyz{|}~"

Ord(c) == CHOOSE n \in (32..126) \ {34, 92, 96} : SubSeq(ASCII, n - 31, n - 31) = c

Chars(s) == [i \in 1..Len(s) |-> Ord(SubSeq(s, i, i))]

\* str.lower() on one code point (ASCII and Latin-1 capitals; the other
\* characters of the tables and of the inputs have no lower-case mapping)
LowerChar(c) ==
  IF (c >= 65 /\ c <= 90) \/ (c >= 192 /\ c <= 222 /\ c # 215) THEN c + 32 ELSE c

\* str.lower()
Lower(s) == [i \in 1..Len(s) |-> LowerChar(s[i])]

\* str.upper() on one code point, the inverse on the same ranges
UpperChar(c) ==
  IF (c >= 97 /\ c <= 122) \/ (c >= 224 /\ c <= 254 /\ c # 247) THEN c - 32 ELSE c

\* the substring test "q in t"
Contains(q, t) ==
  \E i \in 1..(Len(t) - Len(q) + 1) : SubSeq(t, i, i + Len(q) - 1) = q

RECURSIVE Join(_, _)
\* sep.join(parts)
Join(sep, parts) ==
  IF parts = <<>> THEN <<>>
  ELSE IF Len(parts) = 1 THEN parts[1]
  ELSE parts[1] \o sep \o Join(sep, Tail(parts))

RECURSIVE Replace(_, _, _)
\* str.replace(old, new), old non-empty: leftmost non-overlapping occurrences
Replace(s, old, new) ==
  LET at(i) == SubSeq(s, i, i + Len(old) - 1) = old
      starts == 1..(Len(s) - Len(old) + 1)
  IN IF \E i \in starts : at(i)
     THEN LET first == CHOOSE i \in starts : at(i) /\ \A j \in 1..(i - 1) : ~at(j)
          IN SubSeq(s, 1, first - 1) \o new
               \o Replace(SubSeq(s, first + Len(old), Len(s)), old, new)
     ELSE s

\* the characters matched by \s in a str pattern
WhiteSpace ==
  {9, 10, 11, 12, 13, 28, 29, 30, 31, 32, 133, 160, 5760, 8232, 8233, 8239, 8287, 12288}
    \cup (8192..8202)

\* re.sub(r'[\s_\-]', '', text)
StripSeparators(s) == SelectSeq(s, LAMBDA c : c \notin WhiteSpace \cup {95, 45})

\* repr() of a str without backslash, control characters or both quote kinds
ReprStr(s) ==
  IF 39 \in {s[i] : i \in 1..Len(s)} /\ 34 \notin {s[i] : i \in 1..Len(s)}
  THEN <<34>> \o s \o <<34>>
  ELSE <<39>> \o s \o <<39>>

\* repr() of a list of str
ReprList(l) ==
  Chars("[") \o Join(Chars(", "), [i \in 1..Len(l) |-> ReprStr(l[i])]) \o Chars("]")

\* repr() of a dict of str to str, given as a sequence of <<key, value>>
ReprDict(d) ==
  Chars("{")
    \o Join(Chars(", "),
            [i \in 1..Len(d) |-> ReprStr(Chars(d[i][1])) \o Chars(": ") \o ReprStr(d[i][2])])
    \o Chars("}")

\* repr() of one field value of a knowledge entry
ReprValue(f) ==
  CASE f[2] = "str" -> ReprStr(f[3])
    [] f[2] = "list" -> ReprList(f[3])
    [] f[2] = "dict" -> ReprDict(f[3])

\* str(entry) of a knowledge entry (a dict), as used by the search handler
StrOfEntry(e) ==
  Chars("{")
    \o Join(Chars(", "),
            [i \in 1..Len(e.fields) |->
               ReprStr(Chars(e.fields[i][1])) \o Chars(": ") \o ReprValue(e.fields[i])])
    \o Chars("}")

----------------------------------------------------------------------------
(* Knowledge base: each table is the sequence of its entries in insertion  *)
(* order; an entry is its key and its fields <<name, type, value>> in      *)
(* insertion order.                                                        *)

\* PARADIGMS (src/server.py:166-203)
PARADIGMS ==
  <<
  [key |-> "positivism", fields |-> <<
        <<"name", "str", <<49892, 51613, 51452, 51032>> \o Chars(" (Positivism)")>>,
        <<"ontology", "str", <<45800, 51068, 54620>> \o Chars(" ") \o <<44061, 44288, 51201>> \o Chars(" ") \o <<49892, 51116>> \o Chars(" ") \o <<51316, 51116>>>>,
        <<"epistemology", "str", <<50672, 44396, 51088, 50752>> \o Chars(" ") \o <<45824, 49345, 51032>> \o Chars(" ") \o <<48516, 47532>> \o Chars(", ") \o <<44061, 44288, 51201>> \o Chars(" ") \o <<44288, 52272>> \o Chars(" ") \o <<44032, 45733>>>>,
        <<"methodology", "str", <<49892, 54744>> \o Chars(", ") \o <<44160, 51613>> \o Chars(", ") \o <<44032, 49444>> \o Chars(" ") \o <<44160, 51613>>>>,
        <<"quality_criteria", "list", <<<<45236, 51201, 53440, 45817, 46020>>, <<50808, 51201, 53440, 45817, 46020>>, <<49888, 47280, 46020>>, <<44061, 44288, 49457>>>>>>,
        <<"key_scholars", "list", <<Chars("Auguste Comte"), <<201>> \o Chars("mile Durkheim")>>>>,
        <<"limitations", "str", <<51064, 44036>> \o Chars(" ") \o <<44221, 54744, 51032>> \o Chars(" ") \o <<48373, 51105, 49457, 44284>> \o Chars(" ") \o <<47589, 46973>> \o Chars(" ") \o <<47924, 49884>> \o Chars(" ") \o <<44032, 45733, 49457>>>> >>],
  [key |-> "postpositivism", fields |-> <<
        <<"name", "str", <<54980, 44592, 49892, 51613, 51452, 51032>> \o Chars(" (Post-positivism)")>>,
        <<"ontology", "str", <<49892, 51116>> \o Chars(" ") \o <<51316, 51116, 54616, 45208>> \o Chars(" ") \o <<50756, 51204, 55176>> \o Chars(" ") \o <<54028, 50501>> \o Chars(" ") \o <<48520, 44032>> \o Chars(" (Critical Realism)")>>,
        <<"epistemology", "str", <<44061, 44288, 49457, 51008>> \o Chars(" ") \o <<47785, 54364, 51060, 45208>> \o Chars(" ") \o <<54200, 54693>> \o Chars(" ") \o <<51064, 51221>> \o Chars(", ") \o <<48152, 51613, 51452, 51032>>>>,
        <<"methodology", "str", <<49688, 51221, 46108>> \o Chars(" ") \o <<49892, 54744>> \o Chars(", ") \o <<49340, 44033, 44160, 51613>> \o Chars(", ") \o <<51456, 49892, 54744, 49444, 44228>>>>,
        <<"quality_criteria", "list", <<<<45236, 51201, 53440, 45817, 46020>>, <<50808, 51201, 53440, 45817, 46020>>, <<49888, 47280, 46020>>, <<44061, 44288, 49457>> \o Chars(" (") \o <<49688, 51221, 46120>> \o Chars(")")>>>>,
        <<"key_scholars", "list", <<Chars("Karl Popper"), Chars("Thomas Kuhn")>>>>,
        <<"limitations", "str", <<50668, 51204, 55176>> \o Chars(" ") \o <<44061, 44288, 51452, 51032, 51201>> \o Chars(" ") \o <<44032, 51221>> \o Chars(" ") \o <<50976, 51648>>>> >>],
  [key |-> "critical_theory", fields |-> <<
        <<"name", "str", <<48708, 54032, 51060, 47200>> \o Chars(" (Critical Theory)")>>,
        <<"ontology", "str", <<50669, 49324, 51201, 51004, 47196>> \o Chars(" ") \o <<44396, 49457, 46108>> \o Chars(" ") \o <<49892, 51116>> \o Chars(", ") \o <<44428, 47141, 44288, 44228, 50640>> \o Chars(" ") \o <<51032, 54644>> \o Chars(" ") \o <<54805, 49457>>>>,
        <<"epistemology", "str", <<50672, 44396, 51088>> \o Chars("-") \o <<45824, 49345>> \o Chars(" ") \o <<49345, 54840, 51089, 50857>> \o Chars(", ") \o <<44032, 52824>> \o Chars(" ") \o <<44060, 51077>> \o Chars(" ") \o <<51064, 51221>>>>,
        <<"methodology", "str", <<51060, 45936, 50732, 47196, 44592>> \o Chars(" ") \o <<48708, 54032>> \o Chars(", ") \o <<52280, 50668, 51201>> \o Chars(" ") \o <<54665, 46041, 50672, 44396>> \o Chars(", ") \o <<45812, 47200, 48516, 49437>>>>,
        <<"quality_criteria", "list", <<<<50669, 49324, 49457>>, <<52840, 49885, 49457>>, <<52489, 47588, 51201>> \o Chars(" ") \o <<53440, 45817, 49457>>, <<54644, 48169, 51201>> \o Chars(" ") \o <<53440, 45817, 49457>>>>>>,
        <<"key_scholars", "list", <<Chars("Theodor Adorno"), Chars("J") \o <<252>> \o Chars("rgen Habermas"), Chars("Paulo Freire")>>>>,
        <<"limitations", "str", <<50672, 44396, 51088, 51032>> \o Chars(" ") \o <<51221, 52824, 51201>> \o Chars(" ") \o <<51077, 51109, 51060>> \o Chars(" ") \o <<50672, 44396, 50640>> \o Chars(" ") \o <<44284, 46020, 54616, 44172>> \o Chars(" ") \o <<44060, 51077>> \o Chars(" ") \o <<44032, 45733>>>> >>],
  [key |-> "constructivism", fields |-> <<
        <<"name", "str", <<44396, 49457, 51452, 51032>> \o Chars(" (Constructivism)")>>,
        <<"ontology", "str", <<45796, 51473>> \o Chars(" ") \o <<49892, 51116>> \o Chars(", ") \o <<49324, 54924, 51201, 51004, 47196>> \o Chars(" ") \o <<44396, 49457, 46120>>>>,
        <<"epistemology", "str", <<50672, 44396, 51088>> \o Chars("-") \o <<52280, 50668, 51088>> \o Chars(" ") \o <<44277, 46041>> \o Chars(" ") \o <<44396, 49457>> \o Chars(", ") \o <<54644, 49437, 54617, 51201>> \o Chars(" ") \o <<51060, 54644>>>>,
        <<"methodology", "str", <<54644, 49437, 54617>> \o Chars(", ") \o <<44540, 44144, 51060, 47200>> \o Chars(", ") \o <<54788, 49345, 54617>> \o Chars(", ") \o <<45236, 47084, 54000, 48652>>>>,
        <<"quality_criteria", "list", <<<<49888, 47280, 49457>>, <<51204, 51060, 44032, 45733, 49457>>, <<51032, 51316, 49457>>, <<54869, 51613, 49457>>>>>>,
        <<"key_scholars", "list", <<Chars("Egon Guba"), Chars("Yvonna Lincoln"), Chars("John Creswell")>>>>,
        <<"limitations", "str", <<49345, 45824, 51452, 51032, 51201>> \o Chars(" ") \o <<51077, 51109, 51004, 47196>> \o Chars(" ") \o <<51064, 54620>> \o Chars(" ") \o <<51068, 48152, 54868>> \o Chars(" ") \o <<50612, 47140, 50880>>>> >>]
  >>

\* TRADITIONS (src/server.py:205-271)
TRADITIONS ==
  <<
  [key |-> "phenomenology", fields |-> <<
        <<"name", "str", <<54788, 49345, 54617>> \o Chars(" (Phenomenology)")>>,
        <<"focus", "str", <<52404, 54744, 51032>> \o Chars(" ") \o <<48376, 51656>> \o Chars(" (essence of lived experience)")>>,
        <<"data_collection", "str", <<49900, 52789>> \o Chars(" ") \o <<51064, 53552, 48624>> \o Chars(", ") \o <<52280, 50668>> \o Chars(" ") \o <<44288, 52272>>>>,
        <<"analysis", "str", <<54788, 49345, 54617, 51201>> \o Chars(" ") \o <<54872, 50896>> \o Chars(", ") \o <<48376, 51656>> \o Chars(" ") \o <<51649, 44288>> \o Chars(", ") \o <<51032, 48120>> \o Chars(" ") \o <<45800, 50948>> \o Chars(" ") \o <<48516, 49437>>>>,
        <<"sample_size", "str", Chars("3-10") \o <<47749>>>>,
        <<"key_scholars", "list", <<Chars("Husserl"), Chars("Heidegger"), Chars("Merleau-Ponty"), Chars("van Manen")>>>>,
        <<"variants", "dict", <<<<"husserlian", <<44592, 49696, 51201>> \o Chars(" ") \o <<54788, 49345, 54617>> \o Chars(" - ") \o <<48376, 51656>> \o Chars(" ") \o <<44592, 49696, 50640>> \o Chars(" ") \o <<51665, 51473>>>>, <<"heideggerian", <<54644, 49437, 54617, 51201>> \o Chars(" ") \o <<54788, 49345, 54617>> \o Chars(" - ") \o <<51316, 51116, 47200, 51201>> \o Chars(" ") \o <<54644, 49437>>>>, <<"ipa", <<54644, 49437, 54617, 51201>> \o Chars(" ") \o <<54788, 49345, 54617, 51201>> \o Chars(" ") \o <<48516, 49437>> \o Chars(" - ") \o <<52280, 50668, 51088, 51032>> \o Chars(" ") \o <<51032, 48120>> \o Chars(" ") \o <<47564, 46308, 44592>>>>>>>> >>],
  [key |-> "grounded_theory", fields |-> <<
        <<"name", "str", <<44540, 44144, 51060, 47200>> \o Chars(" (Grounded Theory)")>>,
        <<"focus", "str", <<54788, 49345, 51012>> \o Chars(" ") \o <<49444, 47749, 54616, 45716>> \o Chars(" ") \o <<51060, 47200>> \o Chars(" ") \o <<44060, 48156>>>>,
        <<"data_collection", "str", <<51064, 53552, 48624>> \o Chars(", ") \o <<44288, 52272>> \o Chars(", ") \o <<47928, 49436>> \o Chars(" (") \o <<51060, 47200, 51201>> \o Chars(" ") \o <<54364, 51665>> \o Chars(")")>>,
        <<"analysis", "str", <<44060, 48169, 53076, 46377, 8594, 52629, 53076, 46377, 8594, 49440, 53469, 53076, 46377>> \o Chars(", ") \o <<51648, 49549, 51201>> \o Chars(" ") \o <<48708, 44368>>>>,
        <<"sample_size", "str", Chars("20-30") \o <<47749>> \o Chars(" (") \o <<54252, 54868>> \o Chars(" ") \o <<49884, 51216, 44620, 51648>> \o Chars(")")>>,
        <<"key_scholars", "list", <<Chars("Glaser"), Chars("Strauss"), Chars("Corbin"), Chars("Charmaz")>>>>,
        <<"variants", "dict", <<<<"glaserian", <<50896, 51204>> \o Chars(" GT - ") \o <<52636, 54788>> \o Chars(", ") \o <<50672, 44396, 51088>> \o Chars(" ") \o <<51473, 47549, 49457>> \o Chars(" ") \o <<44053, 51312>>>>, <<"straussian", <<52404, 44228, 51201>> \o Chars(" GT - ") \o <<48516, 49437>> \o Chars(" ") \o <<51208, 52264>> \o Chars(" ") \o <<47749, 54869, 54868>>>>, <<"charmaz", <<44396, 49457, 51452, 51032>> \o Chars(" GT - ") \o <<50672, 44396, 51088, 51032>> \o Chars(" ") \o <<54644, 49437, 51201>> \o Chars(" ") \o <<50669, 54624>> \o Chars(" ") \o <<51064, 51221>>>>>>>> >>],
  [key |-> "ethnography", fields |-> <<
        <<"name", "str", <<47928, 54868, 44592, 49696, 51648>> \o Chars(" (Ethnography)")>>,
        <<"focus", "str", <<47928, 54868>> \o Chars(" ") \o <<44277, 50976>> \o Chars(" ") \o <<51665, 45800, 51032>> \o Chars(" ") \o <<54056, 53556>>>>,
        <<"data_collection", "str", <<51109, 44592, 44036>> \o Chars(" ") \o <<54788, 51109, 50672, 44396>> \o Chars(", ") \o <<52280, 50668, 44288, 52272>> \o Chars(", ") \o <<51064, 53552, 48624>>>>,
        <<"analysis", "str", <<44592, 49696>> \o Chars(", ") \o <<48516, 49437>> \o Chars(", ") \o <<54644, 49437>>>>,
        <<"sample_size", "str", <<47928, 54868>> \o Chars(" ") \o <<44277, 50976>> \o Chars(" ") \o <<51665, 45800>> \o Chars(" ") \o <<51204, 52404>>>>,
        <<"key_scholars", "list", <<Chars("Clifford Geertz"), Chars("Bronis") \o <<322>> \o Chars("aw Malinowski")>>>>,
        <<"variants", "dict", <<<<"classical", <<51204, 53685, 51201>> \o Chars(" ") \o <<48124, 51313, 51648>> \o Chars(" - ") \o <<50808, 48512, 51088>> \o Chars(" ") \o <<44288, 51216>>>>, <<"autoethnography", <<51088, 44592>> \o Chars(" ") \o <<47928, 54868, 44592, 49696, 51648>> \o Chars(" - ") \o <<50672, 44396, 51088>> \o Chars(" ") \o <<44221, 54744>> \o Chars(" ") \o <<51473, 49900>>>>, <<"critical", <<48708, 54032, 51201>> \o Chars(" ") \o <<48124, 51313, 51648>> \o Chars(" - ") \o <<44428, 47141, 44288, 44228>> \o Chars(" ") \o <<48516, 49437>>>>>>>> >>],
  [key |-> "narrative", fields |-> <<
        <<"name", "str", <<45236, 47084, 54000, 48652>> \o Chars(" ") \o <<53456, 44396>> \o Chars(" (Narrative Inquiry)")>>,
        <<"focus", "str", <<44060, 51064, 51032>> \o Chars(" ") \o <<51060, 50556, 44592>> \o Chars(", ") \o <<49373, 50528, 49324>>>>,
        <<"data_collection", "str", <<49373, 50528, 49324>> \o Chars(" ") \o <<51064, 53552, 48624>> \o Chars(", ") \o <<51200, 45328>> \o Chars(", ") \o <<47928, 49436>>>>,
        <<"analysis", "str", <<51460, 44144, 47532>> \o Chars(" ") \o <<48516, 49437>> \o Chars(", ") \o <<51452, 51228>> \o Chars(" ") \o <<48516, 49437>> \o Chars(", ") \o <<44396, 51312>> \o Chars(" ") \o <<48516, 49437>>>>,
        <<"sample_size", "str", Chars("1-5") \o <<47749>>>>,
        <<"key_scholars", "list", <<Chars("D. Jean Clandinin"), Chars("F. Michael Connelly")>>>>,
        <<"variants", "dict", <<<<"biographical", <<51204, 44592, 51201>> \o Chars(" ") \o <<51217, 44540>>>>, <<"life_history", <<49373, 50528, 49324>> \o Chars(" ") \o <<50672, 44396>>>>, <<"oral_history", <<44396, 49696, 49324>>>>>>>> >>],
  [key |-> "case_study", fields |-> <<
        <<"name", "str", <<49324, 47168, 50672, 44396>> \o Chars(" (Case Study)")>>,
        <<"focus", "str", <<49324, 47168, 51032>> \o Chars(" ") \o <<49900, 52789, 51201>> \o Chars(" ") \o <<51060, 54644>> \o Chars(" (") \o <<44221, 44228>> \o Chars(" ") \o <<51648, 50612, 51652>> \o Chars(" ") \o <<52404, 44228>> \o Chars(")")>>,
        <<"data_collection", "str", <<51064, 53552, 48624>> \o Chars(", ") \o <<44288, 52272>> \o Chars(", ") \o <<47928, 49436>> \o Chars(", ") \o <<50500, 52852, 51060, 48652>>>>,
        <<"analysis", "str", <<49324, 47168>> \o Chars(" ") \o <<45236>> \o Chars(" ") \o <<48516, 49437>> \o Chars(", ") \o <<44368, 52264>> \o Chars(" ") \o <<49324, 47168>> \o Chars(" ") \o <<48516, 49437>>>>,
        <<"sample_size", "str", Chars("1-5 ") \o <<49324, 47168>>>>,
        <<"key_scholars", "list", <<Chars("Robert Yin"), Chars("Robert Stake"), Chars("Kathleen Eisenhardt")>>>>,
        <<"variants", "dict", <<<<"intrinsic", <<48376, 51656, 51201>> \o Chars(" - ") \o <<49324, 47168>> \o Chars(" ") \o <<51088, 52404, 44032>> \o Chars(" ") \o <<47785, 51201>>>>, <<"instrumental", <<46020, 44396, 51201>> \o Chars(" - ") \o <<49324, 47168, 47484>> \o Chars(" ") \o <<53685, 54620>> \o Chars(" ") \o <<51060, 47200>> \o Chars(" ") \o <<48156, 51204>>>>, <<"collective", <<51665, 54633, 51201>> \o Chars(" - ") \o <<45796, 51473>> \o Chars(" ") \o <<49324, 47168>> \o Chars(" ") \o <<48708, 44368>>>>>>>> >>]
  >>

\* CODING_TYPES (src/server.py:273-317)
CODING_TYPES ==
  <<
  [key |-> "open_coding", fields |-> <<
        <<"name", "str", <<44060, 48169, 53076, 46377>> \o Chars(" (Open Coding)")>>,
        <<"description", "str", <<45936, 51060, 53552, 47484>> \o Chars(" ") \o <<44060, 45392, 51004, 47196>> \o Chars(" ") \o <<48516, 54644, 54616, 44256>> \o Chars(" ") \o <<47749, 47749, 54616, 45716>> \o Chars(" ") \o <<44284, 51221>>>>,
        <<"process", "list", <<<<46972, 51064, 48324>> \o Chars("/") \o <<47928, 51109, 48324>> \o Chars("/") \o <<45800, 46973, 48324>> \o Chars(" ") \o <<48516, 49437>>, <<44060, 45392>> \o Chars(" ") \o <<47749, 47749>>, <<48276, 51452, 54868>>>>>>,
        <<"output", "str", <<44060, 45392>> \o Chars(" ") \o <<47785, 47197>> \o Chars(", ") \o <<52488, 44592>> \o Chars(" ") \o <<48276, 51452>>>> >>],
  [key |-> "axial_coding", fields |-> <<
        <<"name", "str", <<52629, 53076, 46377>> \o Chars(" (Axial Coding)")>>,
        <<"description", "str", <<48276, 51452>> \o Chars(" ") \o <<44036>> \o Chars(" ") \o <<44288, 44228>> \o Chars(" ") \o <<44396, 51312, 54868>>>>,
        <<"paradigm_model", "dict", <<<<"causal_conditions", <<51064, 44284, 51201>> \o Chars(" ") \o <<51312, 44148>>>>, <<"phenomenon", <<54788, 49345>>>>, <<"context", <<47589, 46973, 51201>> \o Chars(" ") \o <<51312, 44148>>>>, <<"intervening", <<51473, 51116, 51201>> \o Chars(" ") \o <<51312, 44148>>>>, <<"strategies", <<51089, 50857>> \o Chars("/") \o <<49345, 54840, 51089, 50857>> \o Chars(" ") \o <<51204, 47029>>>>, <<"consequences", <<44208, 44284>>>>>>>>,
        <<"output", "str", <<54056, 47084, 45796, 51076>> \o Chars(" ") \o <<47784, 54805>> \o Chars(", ") \o <<48276, 51452>> \o Chars(" ") \o <<44288, 44228, 46020>>>> >>],
  [key |-> "selective_coding", fields |-> <<
        <<"name", "str", <<49440, 53469, 53076, 46377>> \o Chars(" (Selective Coding)")>>,
        <<"description", "str", <<54645, 49900, 48276, 51452>> \o Chars(" ") \o <<49440, 51221>> \o Chars(" ") \o <<48143>> \o Chars(" ") \o <<51060, 47200>> \o Chars(" ") \o <<53685, 54633>>>>,
        <<"process", "list", <<<<49828, 53664, 47532, 46972, 51064>> \o Chars(" ") \o <<51089, 49457>>, <<54645, 49900, 48276, 51452>> \o Chars(" ") \o <<54869, 51064>>, <<51060, 47200, 51201>> \o Chars(" ") \o <<53952>> \o Chars(" ") \o <<50756, 49457>>>>>>,
        <<"output", "str", <<51060, 47200, 51201>> \o Chars(" ") \o <<47784, 54805>> \o Chars(", ") \o <<47749, 51228>>>> >>],
  [key |-> "invivo_coding", fields |-> <<
        <<"name", "str", <<51064, 48708, 48372>> \o Chars(" ") \o <<53076, 46377>> \o Chars(" (In Vivo Coding)")>>,
        <<"description", "str", <<52280, 50668, 51088, 51032>> \o Chars(" ") \o <<49892, 51228>> \o Chars(" ") \o <<50616, 50612, 47484>> \o Chars(" ") \o <<53076, 46300, 47196>> \o Chars(" ") \o <<49324, 50857>>>>,
        <<"purpose", "str", <<52280, 50668, 51088>> \o Chars(" ") \o <<44288, 51216>> \o Chars(" ") \o <<48372, 51316>>>>,
        <<"example", "str", <<34, 44536, 45285>> \o Chars(" ") \o <<48260, 54000, 45716>> \o Chars(" ") \o <<44144, 51424, 34>> \o Chars(" ") \o <<8594>> \o Chars(" ") \o <<48260, 54000, 44592>>>> >>],
  [key |-> "thematic_analysis", fields |-> <<
        <<"name", "str", <<51452, 51228, 48516, 49437>> \o Chars(" (Thematic Analysis)")>>,
        <<"process", "list", <<Chars("1. ") \o <<45936, 51060, 53552>> \o Chars(" ") \o <<52828, 49689, 54644, 51648, 44592>>, Chars("2. ") \o <<52488, 44592>> \o Chars(" ") \o <<53076, 46300>> \o Chars(" ") \o <<49373, 49457>>, Chars("3. ") \o <<51452, 51228>> \o Chars(" ") \o <<53456, 49353>>, Chars("4. ") \o <<51452, 51228>> \o Chars(" ") \o <<44160, 53664>>, Chars("5. ") \o <<51452, 51228>> \o Chars(" ") \o <<51221, 51032>> \o Chars(" ") \o <<48143>> \o Chars(" ") \o <<47749, 47749>>, Chars("6. ") \o <<48372, 44256, 49436>> \o Chars(" ") \o <<51089, 49457>>>>>>,
        <<"key_scholars", "list", <<Chars("Braun & Clarke (2006)")>>>> >>]
  >>

\* JOURNALS (src/server.py:362-392)
JOURNALS ==
  <<
  [key |-> "amr", fields |-> <<
        <<"name", "str", Chars("Academy of Management Review")>>,
        <<"focus", "str", <<51060, 47200>> \o Chars(" ") \o <<44060, 48156>> \o Chars(", ") \o <<44060, 45392>> \o Chars(" ") \o <<45436, 47928>>>>,
        <<"style", "str", <<44032, 49444>> \o Chars(" ") \o <<50630, 51020>> \o Chars(", ") \o <<47749, 51228>> \o Chars(" ") \o <<51473, 49900>>>>,
        <<"key_sections", "list", <<Chars("Introduction"), Chars("Theoretical Background"), Chars("Theory Development"), Chars("Discussion")>>>>,
        <<"common_rejections", "list", <<Chars("So What? - ") \o <<44592, 50668, 44032>> \o Chars(" ") \o <<47749, 54869, 54616, 51648>> \o Chars(" ") \o <<50506, 51020>>, Chars("Old Wine - ") \o <<44592, 51316>> \o Chars(" ") \o <<51060, 47200, 51032>> \o Chars(" ") \o <<51116, 54252, 51109>>, Chars("Logic Gaps - ") \o <<45436, 47532, 51201>> \o Chars(" ") \o <<48708, 50557>>, Chars("Construct Confusion - ") \o <<44060, 45392>> \o Chars(" ") \o <<54844, 46976>>>>>>,
        <<"tips", "list", <<<<52395>> \o Chars(" ") \o <<47928, 45800, 50640, 49436>> \o Chars(" ") \o <<55141, 48120, 47196, 50868>> \o Chars(" Puzzle ") \o <<51228, 49884>>, <<44592, 51316>> \o Chars(" ") \o <<51060, 47200, 51032>> \o Chars(" ") \o <<54620, 44228, 47484>> \o Chars(" ") \o <<47749, 54869, 55176>>, <<49352, 47196, 50868>> \o Chars(" ") \o <<44060, 45392>> \o Chars("/") \o <<47700, 52964, 45768, 51608>> \o Chars(" ") \o <<51228, 50504>>, <<44221, 51137>> \o Chars(" ") \o <<44032, 49444, 44284, 51032>> \o Chars(" ") \o <<48708, 44368>>, <<44221, 44228, 51312, 44148>> \o Chars(" ") \o <<47749, 49884>>>>>> >>],
  [key |-> "asq", fields |-> <<
        <<"name", "str", Chars("Administrative Science Quarterly")>>,
        <<"focus", "str", <<44221, 54744, 51201>> \o Chars(" ") \o <<50672, 44396>> \o Chars(" + ") \o <<44053, 54620>> \o Chars(" ") \o <<51060, 47200>>>>,
        <<"style", "str", <<51221, 49457>> \o Chars("/") \o <<51221, 47049>> \o Chars(" ") \o <<47784, 46160>> \o Chars(" ") \o <<44032, 45733>>>>,
        <<"requirements", "list", <<<<49352, 47196, 50868>> \o Chars(" ") \o <<51060, 47200, 51201>> \o Chars(" ") \o <<53685, 52272>>, <<52384, 51200, 54620>> \o Chars(" ") \o <<48169, 48277, 47200>>, <<54413, 48512, 54620>> \o Chars(" ") \o <<45936, 51060, 53552>>>>>> >>]
  >>

\* REJECTION_PATTERNS (src/server.py:394-422)
REJECTION_PATTERNS ==
  <<
  [key |-> "so_what", fields |-> <<
        <<"name", "str", Chars("So What? ") \o <<47928, 51228>>>>,
        <<"symptoms", "list", <<<<44592, 50668>> \o Chars(" ") \o <<48520, 47749, 54869>>, <<49892, 47924, 51201>> \o Chars(" ") \o <<54632, 51032>> \o Chars(" ") \o <<48512, 51313>>, <<51060, 47200, 51201>> \o Chars(" ") \o <<51473, 50836, 49457>> \o Chars(" ") \o <<49444, 47749>> \o Chars(" ") \o <<48512, 51313>>>>>>,
        <<"solutions", "list", <<<<49436, 47200, 50640, 49436>> \o Chars(" ") \o <<50672, 44396>> \o Chars(" ") \o <<51656, 47928, 51032>> \o Chars(" ") \o <<51473, 50836, 49457>> \o Chars(" ") \o <<44053, 51312>>, <<44592, 51316>> \o Chars(" ") \o <<51060, 47200>> \o Chars("/") \o <<49892, 47924, 51032>> \o Chars(" ") \o <<44396, 52404, 51201>> \o Chars(" ") \o <<54620, 44228>> \o Chars(" ") \o <<51228, 49884>>, <<50672, 44396>> \o Chars(" ") \o <<44208, 44284, 51032>> \o Chars(" ") \o <<51060, 47200, 51201>> \o Chars("/") \o <<49892, 47924, 51201>> \o Chars(" ") \o <<54632, 51032>> \o Chars(" ") \o <<47749, 54869, 54868>>>>>> >>],
  [key |-> "old_wine", fields |-> <<
        <<"name", "str", Chars("Old Wine in New Bottles ") \o <<47928, 51228>>>>,
        <<"symptoms", "list", <<<<44592, 51316>> \o Chars(" ") \o <<50672, 44396, 50752>> \o Chars(" ") \o <<52264, 48324, 51216>> \o Chars(" ") \o <<48520, 47749, 54869>>, <<49352, 47196, 50868>> \o Chars(" ") \o <<53685, 52272>> \o Chars(" ") \o <<48512, 51313>>>>>>,
        <<"solutions", "list", <<<<44592, 51316>> \o Chars(" ") \o <<50672, 44396, 50752, 51032>> \o Chars(" ") \o <<47749, 54869, 54620>> \o Chars(" ") \o <<52264, 48324, 51216>> \o Chars(" ") \o <<51228, 49884>>, <<49352, 47196, 50868>> \o Chars(" ") \o <<47589, 46973>> \o Chars("/") \o <<51312, 44148, 50640, 49436, 51032>> \o Chars(" ") \o <<51201, 50857>>, <<44592, 51316>> \o Chars(" ") \o <<51060, 47200, 51032>> \o Chars(" ") \o <<44221, 44228, 51312, 44148>> \o Chars(" ") \o <<53456, 49353>>>>>> >>],
  [key |-> "logic_gap", fields |-> <<
        <<"name", "str", <<45436, 47532, 51201>> \o Chars(" ") \o <<48708, 50557>> \o Chars(" ") \o <<47928, 51228>>>>,
        <<"symptoms", "list", <<<<52628, 47200>> \o Chars(" ") \o <<44284, 51221>> \o Chars(" ") \o <<48520, 50756, 51204>>, <<45936, 51060, 53552>> \o Chars("-") \o <<44208, 47200>> \o Chars(" ") \o <<50672, 44208>> \o Chars(" ") \o <<50557, 54632>>>>>>,
        <<"solutions", "list", <<<<45800, 44228, 48324>> \o Chars(" ") \o <<45436, 47532>> \o Chars(" ") \o <<51204, 44060>>, <<45824, 50504>> \o Chars(" ") \o <<49444, 47749>> \o Chars(" ") \o <<44256, 47140>>, <<52628, 47200, 51032>> \o Chars(" ") \o <<44540, 44144>> \o Chars(" ") \o <<47749, 49884>>>>>> >>]
  >>

\* QUALITY_CRITERIA["trustworthiness"] (src/server.py:319-360)
QUALITY_CRITERIA ==
  <<
  [key |-> "credibility", fields |-> <<
        <<"name", "str", <<49888, 47280, 49457>> \o Chars(" (Credibility)")>>,
        <<"quantitative_equivalent", "str", <<45236, 51201>> \o Chars(" ") \o <<53440, 45817, 46020>>>>,
        <<"strategies", "list", <<<<51109, 44592, 44036>> \o Chars(" ") \o <<52280, 50668>> \o Chars(" (Prolonged engagement)"), <<49340, 44033, 44160, 51613>> \o Chars(" (Triangulation)"), <<46041, 47308>> \o Chars(" ") \o <<44160, 53664>> \o Chars(" (Peer debriefing)"), <<52280, 50668, 51088>> \o Chars(" ") \o <<54869, 51064>> \o Chars(" (Member checking)"), <<48512, 51221, 49324, 47168>> \o Chars(" ") \o <<48516, 49437>> \o Chars(" (Negative case analysis)")>>>> >>],
  [key |-> "transferability", fields |-> <<
        <<"name", "str", <<51204, 51060, 44032, 45733, 49457>> \o Chars(" (Transferability)")>>,
        <<"quantitative_equivalent", "str", <<50808, 51201>> \o Chars(" ") \o <<53440, 45817, 46020>>>>,
        <<"strategies", "list", <<<<54413, 48512, 54620>> \o Chars(" ") \o <<44592, 49696>> \o Chars(" (Thick description)"), <<47589, 46973>> \o Chars(" ") \o <<49345, 49464>> \o Chars(" ") \o <<44592, 49696>>, <<52280, 50668, 51088>> \o Chars(" ") \o <<53945, 49457>> \o Chars(" ") \o <<47749, 49884>>>>>> >>],
  [key |-> "dependability", fields |-> <<
        <<"name", "str", <<51032, 51316, 49457>> \o Chars(" (Dependability)")>>,
        <<"quantitative_equivalent", "str", <<49888, 47280, 46020>>>>,
        <<"strategies", "list", <<<<44048, 49324>> \o Chars(" ") \o <<52628, 51201>> \o Chars(" (Audit trail)"), <<53456, 44396>> \o Chars(" ") \o <<44284, 51221>> \o Chars(" ") \o <<47928, 49436, 54868>>, <<50672, 44396>> \o Chars(" ") \o <<51068, 51648>> \o Chars(" (Reflexive journal)")>>>> >>],
  [key |-> "confirmability", fields |-> <<
        <<"name", "str", <<54869, 51613, 49457>> \o Chars(" (Confirmability)")>>,
        <<"quantitative_equivalent", "str", <<44061, 44288, 49457>>>>,
        <<"strategies", "list", <<<<44048, 49324>> \o Chars(" ") \o <<52628, 51201>>, <<49340, 44033, 44160, 51613>>, <<48152, 49457, 51201>> \o Chars(" ") \o <<49457, 52272>> \o Chars(" (Reflexivity)")>>>> >>]
  >>

\* criteria of assess_lincoln_guba (src/server.py:845-940)
LincolnGubaCriteria ==
  <<
  [criterion |-> "credibility", korean |-> <<49888, 48729, 49457>> \o Chars(" (Credibility)"),
   strategies |-> <<
      [name |-> "prolonged_engagement", korean |-> <<51109, 44592, 51201>> \o Chars(" ") \o <<44288, 50668>>,
       keywords |-> <<<<51109, 44592>>, <<50724, 47004, 44592, 44036>>, Chars("prolonged"), Chars("7") \o <<51068>>, Chars("14") \o <<51068>>, <<51665, 51473, 51201, 44288, 50668>>, <<51648, 49549, 51201>>>>],
      [name |-> "triangulation", korean |-> <<49340, 44033, 54868>> \o Chars("/") \o <<49340, 44033, 44160, 51613>>,
       keywords |-> <<<<49340, 44033, 54868>>, <<49340, 44033, 44160, 51613>>, Chars("triangulation"), <<45796, 51473, 51088, 47308>>, Chars("3") \o <<51473>>, <<51064, 53552, 48624>> \o Chars("+") \o <<51200, 45328>>, <<45796, 51473, 52636, 52376>>>>],
      [name |-> "peer_debriefing", korean |-> <<46041, 47308>> \o Chars(" ") \o <<44160, 53664>>,
       keywords |-> <<<<46041, 47308, 44160, 53664>>, <<46041, 47308, 44160, 51613>>, Chars("peer"), Chars("debriefing"), <<46041, 47308, 50672, 44396, 51088>>>>],
      [name |-> "member_checking", korean |-> <<52280, 50668, 51088>> \o Chars(" ") \o <<54869, 51064>>,
       keywords |-> <<<<52280, 50668, 51088, 54869, 51064>>, Chars("membercheck"), Chars("memberchecking"), <<52280, 50668, 51088, 44160, 53664>>, Chars("2") \o <<45800, 44228, 54869, 51064>>>>],
      [name |-> "negative_case", korean |-> <<48512, 51221, 51201>> \o Chars(" ") \o <<49324, 47168>> \o Chars(" ") \o <<48516, 49437>>,
       keywords |-> <<<<48512, 51221, 51201, 49324, 47168>>, Chars("negativecase"), <<48152, 51613>>, <<48169, 54644, 44221, 54744>>, <<48512, 51221, 49324, 47168>>>>] >>],
  [criterion |-> "transferability", korean |-> <<51204, 51060, 44032, 45733, 49457>> \o Chars(" (Transferability)"),
   strategies |-> <<
      [name |-> "thick_description", korean |-> <<46160, 44732, 50868>> \o Chars(" ") \o <<44592, 49696>>,
       keywords |-> <<<<46160, 44732, 50868, 44592, 49696>>, Chars("thickdescription"), <<49345, 49464, 44592, 49696>>, <<54413, 48512, 54620, 44592, 49696>>>>],
      [name |-> "purposeful_sampling", korean |-> <<47785, 51201, 51201>> \o Chars(" ") \o <<54364, 48376, 52628, 52636>>,
       keywords |-> <<<<47785, 51201, 51201>>, Chars("purposeful"), <<51032, 46020, 51201, 54364, 51665>>, <<47785, 51201, 54364, 51665>>, <<47785, 51201, 51201, 54364, 48376>>, <<47785, 51201, 54364, 48376>>>>],
      [name |-> "context_description", korean |-> <<47589, 46973>> \o Chars(" ") \o <<44592, 49696>>,
       keywords |-> <<<<47589, 46973>>, Chars("context"), <<48176, 44221>>, <<49345, 54889, 44592, 49696>>, <<47589, 46973, 49345, 49464>>, <<47589, 46973, 52404, 53356, 47532, 49828, 53944>>>>] >>],
  [criterion |-> "dependability", korean |-> <<51032, 51316, 44032, 45733, 49457>> \o Chars(" (Dependability)"),
   strategies |-> <<
      [name |-> "audit_trail", korean |-> <<44048, 49324>> \o Chars(" ") \o <<52628, 51201>>,
       keywords |-> <<<<44048, 49324, 52628, 51201>>, Chars("audittrail"), <<50672, 44396, 51068, 51648>>, <<44048, 49324, 47196, 44536>>, <<52628, 51201, 47196, 44536>>>>],
      [name |-> "code_recode", korean |-> <<53076, 46300>> \o Chars("-") \o <<51116, 53076, 46300>>,
       keywords |-> <<<<51116, 53076, 46300>>, Chars("recode"), <<48152, 48373, 53076, 46377>>, <<53076, 46300, 51116, 53076, 46300>>, <<51068, 52824, 50984>>, <<53076, 46377, 51068, 52824>>>>],
      [name |-> "peer_examination", korean |-> <<46041, 47308>> \o Chars(" ") \o <<44160, 51613>>,
       keywords |-> <<<<46041, 47308, 44160, 51613>>, <<46041, 47308, 44160, 53664>>, Chars("peerexamination"), <<46041, 47308, 49900, 49324>>>>] >>],
  [criterion |-> "confirmability", korean |-> <<54869, 51064, 44032, 45733, 49457>> \o Chars(" (Confirmability)"),
   strategies |-> <<
      [name |-> "reflexivity", korean |-> <<48152, 49457, 49457>> \o Chars("/") \o <<49457, 52272>>,
       keywords |-> <<<<48152, 49457>>, Chars("reflexiv"), <<49457, 52272>>, <<48152, 49457, 51201, 51200, 45328>>, <<50948, 52824, 49457>>, <<51200, 45328, 47553>>>>],
      [name |-> "audit_trail", korean |-> <<44048, 49324>> \o Chars(" ") \o <<52628, 51201>>,
       keywords |-> <<<<44048, 49324, 52628, 51201>>, Chars("audittrail"), <<44048, 49324, 47196, 44536>>>>],
      [name |-> "triangulation", korean |-> <<49340, 44033, 54868>> \o Chars("/") \o <<49340, 44033, 44160, 51613>>,
       keywords |-> <<<<49340, 44033, 54868>>, <<49340, 44033, 44160, 51613>>, Chars("triangulation"), Chars("3") \o <<51473>>>>] >>]
  >>

\* criteria of assess_tracy (src/server.py:986-1051)
TracyCriteria ==
  <<
  [criterion |-> "worthy_topic", korean |-> <<44032, 52824, 51080, 45716>> \o Chars(" ") \o <<51452, 51228>>,
   indicators |-> <<<<51473, 50836>>, <<49884, 51032, 51201, 51208>>, <<54596, 50836>>, <<44592, 50668>>, <<47928, 51228>>, <<51032, 48120>>, <<44032, 52824>>, <<49352, 47196, 50868, 54788, 49345>>, Chars("AI"), <<47532, 45908>>, <<51032, 49324, 44208, 51221>>, <<53456, 44396>>, <<50672, 44396, 47785, 51201>>>>],
  [criterion |-> "rich_rigor", korean |-> <<54413, 48512, 54620>> \o Chars(" ") \o <<50628, 44201, 49457>>,
   indicators |-> <<<<52649, 48516, 54620>>, <<45796, 50577, 54620>>, <<51201, 51208, 54620>>, <<52404, 44228, 51201>>, <<47732, 48128, 54620>>, <<50628, 44201>>, Chars("IPA"), Chars("6") \o <<45800, 44228>>, <<45796, 51473, 49324, 47168>>, <<49900, 52789>>, <<48516, 49437, 51208, 52264>>, <<48652, 46972, 52992, 54021>>>>],
  [criterion |-> "sincerity", korean |-> <<49457, 49892, 49457>>,
   indicators |-> <<<<48152, 49457>>, <<49457, 52272>>, <<54620, 44228>>, <<53804, 47749>>, <<51221, 51649>>, <<50948, 52824, 49457>>, <<48152, 49457, 51201, 51200, 45328>>, <<51200, 45328, 47553>>, <<49556, 51649>>>>],
  [criterion |-> "credibility", korean |-> <<49888, 48729, 49457>>,
   indicators |-> <<<<49340, 44033>>, <<52280, 50668, 51088, 54869, 51064>>, <<46160, 44732, 50868, 44592, 49696>>, <<44396, 52404, 51201>>, <<44160, 51613>>, Chars("membercheck"), <<49340, 44033, 44160, 51613>>, <<46041, 47308, 44160, 53664>>>>],
  [criterion |-> "resonance", korean |-> <<44277, 47749>>,
   indicators |-> <<<<51204, 51060>>, <<51068, 48152, 54868>>, <<46021, 51088>>, <<50689, 54693>>, <<44048, 46041>>, <<44277, 44048>>, <<44221, 54744>>, <<51032, 48120>>, <<48376, 51656>>, <<53685, 52272>>>>],
  [criterion |-> "significant_contribution", korean |-> <<51032, 48120, 51080, 45716>> \o Chars(" ") \o <<44592, 50668>>,
   indicators |-> <<<<44592, 50668>>, <<54869, 51109>>, <<49352, 47196, 50868>>, <<48156, 51204>>, <<54632, 51032>>, <<51060, 47200, 51201>>, <<49892, 47924, 51201>>, <<53685, 52272>>, <<51228, 50504>>>>],
  [criterion |-> "ethics", korean |-> <<50980, 47532, 49457>>,
   indicators |-> <<<<50980, 47532>>, <<46041, 51032>>, <<51061, 47749>>, <<48372, 54840>>, Chars("IRB"), <<49849, 51064>>, <<46041, 51032, 49436>>, <<52384, 54924>>, <<48124, 44048, 51221, 48372>>, <<51061, 47749, 54868>>>>],
  [criterion |-> "meaningful_coherence", korean |-> <<51032, 48120, 51080, 45716>> \o Chars(" ") \o <<51068, 44288, 49457>>,
   indicators |-> <<<<51068, 44288>>, <<50672, 44208>>, <<47785, 51201>>, <<48169, 48277, 47200>>, <<53685, 54633>>, <<51201, 54633>>, Chars("IPA"), <<54788, 49345, 54617>>, <<50672, 44396, 51656, 47928>>, <<48516, 49437>>>>]
  >>

----------------------------------------------------------------------------
(* Python values *)

\* the result of a call: a returned value or a raised exception
Return(v) == [ret |-> "return", value |-> v]
Raise(e) == [ret |-> "raise", exc |-> e]

\* the text of None in an f-string
NoneText == Chars("None")

\* "key in args" for the argument dict of a tool call
HasArg(args, k) == k \in DOMAIN args

\* f"{args.get(k)}"
ArgText(args, k) == IF HasArg(args, k) THEN args[k] ELSE NoneText

\* args.get(k, default) for a str default
ArgOr(args, k, default) == IF HasArg(args, k) THEN args[k] ELSE default

\* the keys of a table in insertion order, as text
Keys(table) == [i \in 1..Len(table) |-> Chars(table[i].key)]

\* position of the entry with key k in a table, 0 when "k not in table"
KeyIndex(table, k) ==
  IF \E i \in 1..Len(table) : Chars(table[i].key) = k
  THEN CHOOSE i \in 1..Len(table) : Chars(table[i].key) = k
  ELSE 0

\* position of args.get(k) in a table, 0 when absent from the table (None is in no table)
ArgIndex(table, args, k) == IF HasArg(args, k) THEN KeyIndex(table, args[k]) ELSE 0

\* "f in entry"
HasField(e, f) == \E i \in 1..Len(e.fields) : e.fields[i][1] = f

\* entry[f]
FieldValue(e, f) == e.fields[CHOOSE i \in 1..Len(e.fields) : e.fields[i][1] = f][3]

\* the subscripts entry[f] of a handler, in evaluation order: the fields
\* read, or KeyError at the first one the entry lacks
Subscripts(e, fs) == IF \A i \in 1..Len(fs) : HasField(e, fs[i]) THEN Return(fs) ELSE Raise("KeyError")

\* the optional sections of a handler ("if f in entry"), in order
Optional(e, fs) == SelectSeq(fs, LAMBDA f : HasField(e, f))

\* the "unknown key" text: f"{label}: {given}\n{usable}: {', '.join(table.keys())}"
UnknownKeyText(label, given, table) ==
  label \o Chars(": ") \o given \o <<10>>
    \o <<49324, 50857>> \o Chars(" ") \o <<44032, 45733>> \o Chars(": ")
    \o Join(Chars(", "), Keys(table))

\* the rendering of one entry: the table, the key and the fields shown, in order
EntryText(tool, e, fs) == [kind |-> "entry", tool |-> tool, key |-> e.key, sections |-> fs]

\* a lookup handler that subscripts the table with the key it is given
LookupHandlerSubscript(tool, table, args, arg, label, required, optional) ==
  LET i == ArgIndex(table, args, arg) IN
  IF i = 0 THEN Raise("KeyError")
  ELSE LET e == table[i]
           sub == Subscripts(e, required) IN
       IF sub.ret = "raise" THEN sub
       ELSE Return(EntryText(tool, e, required \o Optional(e, optional)))

\* a lookup handler: unknown key text, or the entry rendered from the
\* fields it subscripts (required) and the fields it tests for (optional)
LookupHandler(tool, table, args, arg, label, required, optional) ==
  LET i == ArgIndex(table, args, arg) IN
  IF i = 0
  THEN Return([kind |-> "unknown_key", tool |-> tool,
               text |-> UnknownKeyText(label, ArgText(args, arg), table)])
  ELSE LET e == table[i]
           sub == Subscripts(e, required) IN
       IF sub.ret = "raise" THEN sub
       ELSE Return(EntryText(tool, e, required \o Optional(e, optional)))

handle_get_paradigm(args) ==
  LookupHandler("get_paradigm", PARADIGMS, args, "paradigm",
                <<50508>> \o Chars(" ") \o <<49688>> \o Chars(" ") \o <<50630, 45716>>
                  \o Chars(" ") \o <<54056, 47084, 45796, 51076>>,
                <<"name", "ontology", "epistemology", "methodology",
                  "quality_criteria", "key_scholars", "limitations">>,
                <<>>)

handle_get_tradition(args) ==
  LookupHandler("get_tradition", TRADITIONS, args, "tradition",
                <<50508>> \o Chars(" ") \o <<49688>> \o Chars(" ") \o <<50630, 45716>>
                  \o Chars(" ") \o <<51204, 53685>>,
                <<"name", "focus", "data_collection", "analysis", "sample_size", "key_scholars">>,
                <<"variants">>)

handle_get_coding_guide(args) ==
  LookupHandler("get_coding_guide", CODING_TYPES, args, "coding_type",
                <<50508>> \o Chars(" ") \o <<49688>> \o Chars(" ") \o <<50630, 45716>>
                  \o Chars(" ") \o <<53076, 46377>> \o Chars(" ") \o <<50976, 54805>>,
                <<"name", "description">>,
                <<"process", "output", "paradigm_model">>)

handle_get_journal_guide(args) ==
  LookupHandler("get_journal_guide", JOURNALS, args, "journal",
                <<50508>> \o Chars(" ") \o <<49688>> \o Chars(" ") \o <<50630, 45716>>
                  \o Chars(" ") \o <<51200, 45328>>,
                <<"name", "focus", "style">>,
                <<"key_sections", "common_rejections", "tips">>)

handle_diagnose_rejection(args) ==
  LookupHandler("diagnose_rejection", REJECTION_PATTERNS, args, "rejection_type",
                <<50508>> \o Chars(" ") \o <<49688>> \o Chars(" ") \o <<50630, 45716>>
                  \o Chars(" ") \o <<47532, 51229, 49496>> \o Chars(" ") \o <<50976, 54805>>,
                <<"name", "symptoms", "solutions">>,
                <<>>)

----------------------------------------------------------------------------
(* Vector search adapter.  The embedding model and the persistent index   *)
(* are external: env says how they behave during one operation.           *)
(*   env.fault  the first external step that fails, "none" if none does:  *)
(*     "path"        CHROMA_PATH does not exist                           *)
(*     "model"       SentenceTransformer('all-MiniLM-L6-v2') raises       *)
(*     "encode"      encoder.encode raises                                *)
(*     "client"      chromadb.PersistentClient raises                     *)
(*     "collection"  client.get_collection raises                         *)
(*     "count"       collection.count raises                              *)
(*     "query"       collection.query raises                              *)
(*   env.ndocs  the number of documents the index holds                   *)
(*   env.rank   the document the index ranks first for the query          *)

\* one document per category written by generate_documents, in its order
\* (src/init_vectordb.py:516-824): id, source and category metadata
Documents ==
  << [id |-> "paradigm_positivism", source |-> "paradigms", category |-> "paradigm"],
     [id |-> "tradition_phenomenology", source |-> "traditions", category |-> "tradition"],
     [id |-> "coding_open_coding", source |-> "coding", category |-> "method"],
     [id |-> "quality_trustworthiness", source |-> "quality", category |-> "quality"],
     [id |-> "journal_amr", source |-> "journals", category |-> "journal"],
     [id |-> "rejection_so_what", source |-> "rejection_patterns", category |-> "rejection"],
     [id |-> "conceptual_gerring_criteria", source |-> "conceptual_papers", category |-> "conceptual"] >>

Min(a, b) == IF a < b THEN a ELSE b

\* the documents of the index in the order the index ranks them for a query
Ranking(e) == [i \in 1..e.ndocs |-> Documents[((e.rank + i - 2) % e.ndocs) + 1]]

\* collection.query(query_embeddings, n_results, where): the n_results best
\* ranked documents among those the metadata filter keeps
Query(e, n_results, category) ==
  LET kept == SelectSeq(Ranking(e), LAMBDA d : category = <<>> \/ Chars(d.category) = category)
  IN SubSeq(kept, 1, Min(n_results, Len(kept)))

Faults == {"none", "path", "model", "encode", "client", "collection", "count", "query"}

Envs ==
  [fault : Faults \ {"none"}, ndocs : {0}, rank : {1}]
    \cup {[fault |-> "none", ndocs |-> n, rank |-> r] :
            <<n, r>> \in {<<0, 1>>} \cup {p \in (1..Min(MaxDocs, Len(Documents))) \X (1..Min(MaxDocs, Len(Documents))) : p[2] \in {1, p[1]}}}

\* QualMasterVectorStore.__init__
QualMasterVectorStore == [_client |-> "None", _collection |-> "None", _encoder |-> "None"]

\* the encoder property: the store afterwards and the value, or the exception
encoder(self, st_available, e) ==
  IF self._encoder = "None" /\ st_available
  THEN IF e.fault = "model"
       THEN [self |-> self, out |-> Raise("Exception")]
       ELSE [self |-> [self EXCEPT !._encoder = "SentenceTransformer"],
             out |-> Return("SentenceTransformer")]
  ELSE [self |-> self, out |-> Return(self._encoder)]

\* the collection property: the store afterwards and the value, or the exception
collection(self, chromadb_available, e) ==
  IF self._collection = "None"
  THEN IF ~chromadb_available THEN [self |-> self, out |-> Raise("NameError")]
       ELSE IF e.fault = "client" THEN [self |-> self, out |-> Raise("Exception")]
       ELSE IF e.fault = "collection"
            THEN [self |-> [self EXCEPT !._client = "PersistentClient"],
                  out |-> Raise("Exception")]
       ELSE IF e.fault = "count"
            THEN [self |-> [self EXCEPT !._client = "PersistentClient", !._collection = "Collection"],
                  out |-> Raise("Exception")]
       ELSE [self |-> [self EXCEPT !._client = "PersistentClient", !._collection = "Collection"],
             out |-> Return("Collection")]
  ELSE [self |-> self, out |-> Return(self._collection)]

\* one formatted hit of QualMasterVectorStore.search; the document text and
\* its title are stood for by the document id
Hit(d, i) == [content |-> d.id, title |-> d.id, source |-> d.source,
              category |-> d.category, rank |-> i]

\* QualMasterVectorStore.search without its try/except
searchUnguarded(self, query, n_results, category, st_available, chromadb_available, e) ==
  LET enc == encoder(self, st_available, e) IN
  IF enc.out.ret = "raise" THEN [self |-> enc.self, out |-> enc.out]
  ELSE IF enc.out.value = "None" THEN [self |-> enc.self, out |-> Return(<<>>)]
  ELSE IF e.fault = "encode" THEN [self |-> enc.self, out |-> Raise("Exception")]
  ELSE LET col == collection(enc.self, chromadb_available, e) IN
       IF col.out.ret = "raise" THEN [self |-> col.self, out |-> col.out]
       ELSE IF e.fault = "query" THEN [self |-> col.self, out |-> Raise("Exception")]
       ELSE LET docs == Query(e, n_results, category) IN
            [self |-> col.self, out |-> Return([i \in 1..Len(docs) |-> Hit(docs[i], i)])]

\* QualMasterVectorStore.search: the store afterwards and the result, or the exception
search(self, query, n_results, category, st_available, chromadb_available, e) ==
  LET enc == encoder(self, st_available, e) IN
  IF enc.out.ret = "raise" THEN [self |-> enc.self, out |-> Return(<<>>)]
  ELSE IF enc.out.value = "None" THEN [self |-> enc.self, out |-> Return(<<>>)]
  ELSE IF e.fault = "encode" THEN [self |-> enc.self, out |-> Return(<<>>)]
  ELSE LET col == collection(enc.self, chromadb_available, e) IN
       IF col.out.ret = "raise" THEN [self |-> col.self, out |-> Return(<<>>)]
       ELSE IF e.fault = "query" THEN [self |-> col.self, out |-> Return(<<>>)]
       ELSE LET docs == Query(e, n_results, category) IN
            [self |-> col.self, out |-> Return([i \in 1..Len(docs) |-> Hit(docs[i], i)])]

\* QualMasterVectorStore.get_stats: the store afterwards and the dict,
\* given by whether it has the key total_documents
get_stats(self, chromadb_available, e) ==
  LET col == collection(self, chromadb_available, e) IN
  IF col.out.ret = "raise" THEN [self |-> col.self, out |-> Return([status |-> "disconnected"])]
  ELSE IF e.fault = "count" THEN [self |-> col.self, out |-> Return([status |-> "disconnected"])]
  ELSE [self |-> col.self,
        out |-> Return([total_documents |-> e.ndocs, status |-> "connected"])]

\* init_chromadb: the global vector_store afterwards (<<>> is None,
\* <<store>> a store) and the value returned
init_chromadb(store, chromadb_available, e) ==
  IF ~chromadb_available THEN [vector_store |-> store, out |-> Return(FALSE)]
  ELSE IF e.fault = "path" THEN [vector_store |-> store, out |-> Return(FALSE)]
  ELSE LET stats == get_stats(QualMasterVectorStore, chromadb_available, e) IN
       IF "total_documents" \in DOMAIN stats.out.value
       THEN [vector_store |-> <<stats.self>>, out |-> Return(TRUE)]
       ELSE [vector_store |-> <<>>, out |-> Return(FALSE)]

\* search_chromadb: the global vector_store afterwards, the outcome of the
\* QualMasterVectorStore.search call it makes (<<>> when it makes none) and the result
search_chromadb(store, query, n_results, category, st_available, chromadb_available, e) ==
  IF store = <<>> THEN [vector_store |-> store, search |-> <<>>, out |-> Return(<<>>)]
  ELSE LET r == search(store[1], query, n_results, category, st_available, chromadb_available, e)
       IN [vector_store |-> <<r.self>>,
           search |-> <<r.out>>,
           out |-> IF r.out.ret = "raise" THEN Return(<<>>) ELSE r.out]

----------------------------------------------------------------------------
(* search_knowledge *)

\* the entries of a table, in table order, that the search loop keeps for
\* the case-folded query: "query in key or query in e['name'].lower()",
\* and for the tables searched in full "or query in str(e).lower()"
Matching(table, query, full) ==
  SelectSeq(table,
            LAMBDA e : \/ Contains(query, Chars(e.key))
                       \/ Contains(query, Lower(FieldValue(e, "name")))
                       \/ (full /\ Contains(query, Lower(StrOfEntry(e)))))

\* "not category or category == c"
Selected(args, c) ==
  ~HasArg(args, "category") \/ args["category"] = <<>> \/ args["category"] = Chars(c)

\* one loop of the search: the snippets appended for a table, each standing
\* for the text built from the fields it subscripts, or KeyError
SearchTable(args, query, c, tname, table, full, shown) ==
  IF ~Selected(args, c) THEN Return(<<>>)
  ELSE LET m == Matching(table, query, full) IN
       IF \E i \in 1..Len(m) : Subscripts(m[i], shown).ret = "raise"
       THEN Raise("KeyError")
       ELSE Return([i \in 1..Len(m) |-> [table |-> tname, key |-> m[i].key]])

\* step 1 of handle_search_knowledge: the exact-match results, or the exception
ExactResults(args) ==
  LET query == Lower(ArgOr(args, "query", <<>>))
      p == SearchTable(args, query, "paradigms", "PARADIGMS", PARADIGMS, TRUE,
                       <<"name", "ontology", "epistemology">>)
      t == SearchTable(args, query, "traditions", "TRADITIONS", TRADITIONS, TRUE,
                       <<"name", "focus", "analysis">>)
      c == SearchTable(args, query, "coding", "CODING_TYPES", CODING_TYPES, TRUE,
                       <<"name", "description">>)
      j == SearchTable(args, query, "journals", "JOURNALS", JOURNALS, FALSE,
                       <<"name", "focus">>)
      r == SearchTable(args, query, "rejection", "REJECTION_PATTERNS", REJECTION_PATTERNS, FALSE,
                       <<"name", "symptoms">>)
  IN IF p.ret = "raise" THEN p
     ELSE IF t.ret = "raise" THEN t
     ELSE IF c.ret = "raise" THEN c
     ELSE IF j.ret = "raise" THEN j
     ELSE IF r.ret = "raise" THEN r
     ELSE Return(p.value \o t.value \o c.value \o j.value \o r.value)

\* SearchOutput with the exact-match results joined last to first
SearchOutputReversed(args, results, rag_results, connected) ==
  IF results # <<>> \/ rag_results # <<>>
  THEN [kind |-> "search_results", query |-> ArgOr(args, "query", <<>>),
        exact |-> [i \in 1..Len(results) |-> results[Len(results) + 1 - i]],
        rag |-> SubSeq(rag_results, 1, Min(3, Len(rag_results)))]
  ELSE [kind |-> "no_results", query |-> ArgOr(args, "query", <<>>),
        connected |-> connected]

\* step 2 of handle_search_knowledge: the text returned for the exact-match
\* results and the results of search_chromadb(original_query, n_results=5)
SearchOutput(args, results, rag_results, connected) ==
  IF results # <<>> \/ rag_results # <<>>
  THEN [kind |-> "search_results", query |-> ArgOr(args, "query", <<>>),
        exact |-> results,
        rag |-> SubSeq(rag_results, 1, Min(3, Len(rag_results)))]
  ELSE [kind |-> "no_results", query |-> ArgOr(args, "query", <<>>),
        connected |-> connected]

\* the rest of handle_search_knowledge once step 1 gave exact
SearchKnowledge(args, exact, r, store) ==
  IF exact.ret = "raise"
  THEN [vector_store |-> store, rag |-> <<>>, out |-> exact]
  ELSE [vector_store |-> r.vector_store,
        rag |-> <<[search |-> r.search, out |-> r.out]>>,
        out |-> Return(SearchOutput(args, exact.value, r.out.value, store # <<>>))]

\* handle_search_knowledge: the global vector_store afterwards, the outcome
\* of its search_chromadb call (<<>> when not reached) and the text or exception
handle_search_knowledge(args, store, st_available, chromadb_available, e) ==
  SearchKnowledge(args, ExactResults(args),
                  search_chromadb(store, ArgOr(args, "query", <<>>), 5, <<>>,
                                  st_available, chromadb_available, e),
                  store)

\* the blocks of the text handle_search_knowledge returns for its results, in
\* the order of the text: the joined exact-match results, then rag_section
SearchBlocks(content) ==
  [i \in 1..Len(content.exact) |->
     [section |-> "exact", table |-> content.exact[i].table, key |-> content.exact[i].key]]
    \o [i \in 1..Len(content.rag) |->
          [section |-> "rag", number |-> i, title |-> content.rag[i].title]]

\* the tables handle_search_knowledge goes through, in the order of its loops
SearchedTables ==
  <<[name |-> "PARADIGMS", table |-> PARADIGMS],
    [name |-> "TRADITIONS", table |-> TRADITIONS],
    [name |-> "CODING_TYPES", table |-> CODING_TYPES],
    [name |-> "JOURNALS", table |-> JOURNALS],
    [name |-> "REJECTION_PATTERNS", table |-> REJECTION_PATTERNS]>>

----------------------------------------------------------------------------
(* Quality rubric scorer *)

\* normalize_text without the removal of whitespace, underscores and hyphens
normalize_textKeepSeparators(text) ==
  Replace(Lower(text), <<44160, 51613>>, <<44160, 53664>>)

\* normalize_text: lower(), remove whitespace, "_" and "-", then U+AC80 U+C99D
\* is replaced by U+AC80 U+D1A0
normalize_text(text) ==
  Replace(StripSeparators(Lower(text)), <<44160, 51613>>, <<44160, 53664>>)

\* int(num / den) + 1 in place of round
roundUp(num, den) == (num \div den) + 1

\* int(num / den) in place of round
roundDown(num, den) == num \div den

\* int(num / den + 0.5) in place of round
roundHalfUp(num, den) == (2 * num + den) \div (2 * den)

\* round(num / den) of Python 3: to nearest, ties to the even integer
\* (num >= 0, den > 0; exact for the quotients the scorer forms)
round(num, den) ==
  LET q == num \div den
      r == num % den
  IN IF 2 * r < den THEN q
     ELSE IF 2 * r > den THEN q + 1
     ELSE IF q % 2 = 0 THEN q ELSE q + 1

\* found_in_desc of assess_lincoln_guba for one strategy
found_in_desc(strategy, lower_desc, normalized_desc) ==
  \E i \in 1..Len(strategy.keywords) :
     \/ Contains(normalize_text(strategy.keywords[i]), normalized_desc)
     \/ Contains(Lower(strategy.keywords[i]), lower_desc)

\* found_in_strategies with all() over the strategy strings in place of any()
found_in_strategiesAll(strategy, normalized_strategies) ==
  \A j \in 1..Len(normalized_strategies) :
     \E i \in 1..Len(strategy.keywords) :
        \/ Contains(normalize_text(strategy.keywords[i]), normalized_strategies[j])
        \/ Contains(normalized_strategies[j], normalize_text(strategy.keywords[i]))

\* found_in_strategies of assess_lincoln_guba for one strategy
found_in_strategies(strategy, normalized_strategies) ==
  \E j \in 1..Len(normalized_strategies) :
     \E i \in 1..Len(strategy.keywords) :
        \/ Contains(normalize_text(strategy.keywords[i]), normalized_strategies[j])
        \/ Contains(normalized_strategies[j], normalize_text(strategy.keywords[i]))

\* the recommendation of assess_lincoln_guba for a missing strategy
LincolnGubaRecommendation(m) ==
  m \o Chars(" ") \o <<51204, 47029, 51012>> \o Chars(" ") \o <<52628, 44032, 47196>>
    \o Chars(" ") \o <<51201, 50857, 54616, 49464, 50836>>

\* assess_lincoln_guba with a recommendation for the first missing strategy only
assess_lincoln_gubaFirstOnly(description, strategies) ==
  LET lower_desc == Lower(description)
      normalized_desc == normalize_text(description)
      normalized_strategies == [j \in 1..Len(strategies) |-> normalize_text(strategies[j])]
      matched(s) == \/ found_in_desc(s, lower_desc, normalized_desc)
                    \/ found_in_strategies(s, normalized_strategies)
      assess(c) ==
        LET applied == SelectSeq(c.strategies, matched)
            missing == SelectSeq(c.strategies, LAMBDA s : ~matched(s))
        IN [criterion |-> c.criterion,
            korean |-> c.korean,
            score |-> round(Len(applied) * 25, Len(c.strategies)),
            max_score |-> 25,
            strategies_applied |-> [i \in 1..Len(applied) |-> applied[i].korean],
            missing_strategies |-> [i \in 1..Len(missing) |-> missing[i].korean],
            recommendations |->
              [i \in 1..Min(1, Len(missing)) |-> LincolnGubaRecommendation(missing[i].korean)]]
  IN [i \in 1..Len(LincolnGubaCriteria) |-> assess(LincolnGubaCriteria[i])]

\* assess_lincoln_guba
assess_lincoln_guba(description, strategies) ==
  LET lower_desc == Lower(description)
      normalized_desc == normalize_text(description)
      normalized_strategies == [j \in 1..Len(strategies) |-> normalize_text(strategies[j])]
      matched(s) == \/ found_in_desc(s, lower_desc, normalized_desc)
                    \/ found_in_strategies(s, normalized_strategies)
      assess(c) ==
        LET applied == SelectSeq(c.strategies, matched)
            missing == SelectSeq(c.strategies, LAMBDA s : ~matched(s))
        IN [criterion |-> c.criterion,
            korean |-> c.korean,
            score |-> round(Len(applied) * 25, Len(c.strategies)),
            max_score |-> 25,
            strategies_applied |-> [i \in 1..Len(applied) |-> applied[i].korean],
            missing_strategies |-> [i \in 1..Len(missing) |-> missing[i].korean],
            recommendations |->
              [i \in 1..Len(missing) |-> LincolnGubaRecommendation(missing[i].korean)]]
  IN [i \in 1..Len(LincolnGubaCriteria) |-> assess(LincolnGubaCriteria[i])]

\* the recommendation of assess_tracy for a criterion
TracyRecommendation(korean) ==
  korean \o Chars(" ") \o <<44288, 47144>> \o Chars(" ") \o <<45236, 50857, 51012>>
    \o Chars(" ") \o <<48372, 44053, 54616, 49464, 50836>>

\* assess_tracy with a recommendation when either condition holds
assess_tracyEither(description, strategies) ==
  LET lower_desc == Lower(description)
      normalized_desc == normalize_text(description)
      normalized_strategies == [j \in 1..Len(strategies) |-> normalize_text(strategies[j])]
      found(ind) ==
        \/ Contains(normalize_text(ind), normalized_desc)
        \/ Contains(Lower(ind), lower_desc)
        \/ \E j \in 1..Len(normalized_strategies) :
              Contains(normalize_text(ind), normalized_strategies[j])
      assess(c) ==
        LET found_indicators == SelectSeq(c.indicators, found)
            missing_indicators == SelectSeq(c.indicators, LAMBDA ind : ~found(ind))
            score == round(Len(found_indicators) * 13, Len(c.indicators))
        IN [criterion |-> c.criterion,
            korean |-> c.korean,
            score |-> score,
            max_score |-> 13,
            strategies_applied |-> found_indicators,
            missing_strategies |-> SubSeq(missing_indicators, 1, Min(3, Len(missing_indicators))),
            recommendations |->
              IF score < 10 \/ Len(found_indicators) < 3
              THEN <<TracyRecommendation(c.korean)>> ELSE <<>>]
  IN [i \in 1..Len(TracyCriteria) |-> assess(TracyCriteria[i])]

\* assess_tracy
assess_tracy(description, strategies) ==
  LET lower_desc == Lower(description)
      normalized_desc == normalize_text(description)
      normalized_strategies == [j \in 1..Len(strategies) |-> normalize_text(strategies[j])]
      found(ind) ==
        \/ Contains(normalize_text(ind), normalized_desc)
        \/ Contains(Lower(ind), lower_desc)
        \/ \E j \in 1..Len(normalized_strategies) :
              Contains(normalize_text(ind), normalized_strategies[j])
      assess(c) ==
        LET found_indicators == SelectSeq(c.indicators, found)
            missing_indicators == SelectSeq(c.indicators, LAMBDA ind : ~found(ind))
            score == round(Len(found_indicators) * 13, Len(c.indicators))
        IN [criterion |-> c.criterion,
            korean |-> c.korean,
            score |-> score,
            max_score |-> 13,
            strategies_applied |-> found_indicators,
            missing_strategies |-> SubSeq(missing_indicators, 1, Min(3, Len(missing_indicators))),
            recommendations |->
              IF score < 10 /\ Len(found_indicators) < 3
              THEN <<TracyRecommendation(c.korean)>> ELSE <<>>]
  IN [i \in 1..Len(TracyCriteria) |-> assess(TracyCriteria[i])]

\* get_grade with the bands exclusive on the lower side
get_gradeExclusive(num, den) ==
  IF num > 90 * den THEN "A"
  ELSE IF num > 80 * den THEN "B"
  ELSE IF num > 70 * den THEN "C"
  ELSE IF num > 60 * den THEN "D"
  ELSE "F"

\* get_grade, for the percentage num / den
get_grade(num, den) ==
  IF num >= 90 * den THEN "A"
  ELSE IF num >= 80 * den THEN "B"
  ELSE IF num >= 70 * den THEN "C"
  ELSE IF num >= 60 * den THEN "D"
  ELSE "F"

\* get_priority_actions without the cut to three entries
get_priority_actionsUncut(assessments) ==
  LET weak == SelectSeq(assessments, LAMBDA a : 2 * a.score < a.max_score)
      action(a) ==
        a.korean \o Chars(" ") \o <<44060, 49440>> \o Chars(": ")
          \o (IF a.recommendations # <<>> THEN a.recommendations[1]
              ELSE <<51204, 47029>> \o Chars(" ") \o <<52628, 44032>> \o Chars(" ") \o <<54596, 50836>>)
  IN [i \in 1..Len(weak) |-> action(weak[i])]

\* get_priority_actions
get_priority_actions(assessments) ==
  LET weak == SelectSeq(assessments, LAMBDA a : 2 * a.score < a.max_score)
      action(a) ==
        a.korean \o Chars(" ") \o <<44060, 49440>> \o Chars(": ")
          \o (IF a.recommendations # <<>> THEN a.recommendations[1]
              ELSE <<51204, 47029>> \o Chars(" ") \o <<52628, 44032>> \o Chars(" ") \o <<54596, 50836>>)
  IN [i \in 1..Min(3, Len(weak)) |-> action(weak[i])]

RECURSIVE Sum(_, _)
\* sum(a[f] for a in assessments)
Sum(assessments, f) ==
  IF assessments = <<>> THEN 0 ELSE Head(assessments)[f] + Sum(Tail(assessments), f)

\* AssessmentResult with the strengths from half of the maximum upwards
AssessmentResultHalf(criteria, research_description, strategies_used, assessments) ==
  LET total_score == Sum(assessments, "score")
      max_score == Sum(assessments, "max_score")
      num == IF max_score > 0 THEN total_score * 100 ELSE 0
      den == IF max_score > 0 THEN max_score ELSE 1
      strong == SelectSeq(assessments, LAMBDA a : 2 * a.score >= a.max_score)
      weak == SelectSeq(assessments, LAMBDA a : 2 * a.score < a.max_score)
  IN [kind |-> "assessment",
      criteria_used |-> criteria,
      description_length |-> Len(research_description),
      strategies_reported |-> Len(strategies_used),
      total_score |-> total_score,
      max_score |-> max_score,
      percentage_num |-> num,
      percentage_den |-> den,
      percentage_tenths |-> round(num * 10, den),
      grade |-> get_grade(num, den),
      detailed_assessment |-> assessments,
      strengths |-> [i \in 1..Len(strong) |-> strong[i].korean],
      weaknesses |-> [i \in 1..Len(weak) |-> weak[i].korean],
      priority_actions |-> get_priority_actions(assessments)]

\* the dict handle_assess_quality serializes, for the assessments made
AssessmentResult(criteria, research_description, strategies_used, assessments) ==
  LET total_score == Sum(assessments, "score")
      max_score == Sum(assessments, "max_score")
      num == IF max_score > 0 THEN total_score * 100 ELSE 0
      den == IF max_score > 0 THEN max_score ELSE 1
      strong == SelectSeq(assessments, LAMBDA a : 10 * a.score >= 7 * a.max_score)
      weak == SelectSeq(assessments, LAMBDA a : 2 * a.score < a.max_score)
  IN [kind |-> "assessment",
      criteria_used |-> criteria,
      description_length |-> Len(research_description),
      strategies_reported |-> Len(strategies_used),
      total_score |-> total_score,
      max_score |-> max_score,
      percentage_num |-> num,
      percentage_den |-> den,
      percentage_tenths |-> round(num * 10, den),
      grade |-> get_grade(num, den),
      detailed_assessment |-> assessments,
      strengths |-> [i \in 1..Len(strong) |-> strong[i].korean],
      weaknesses |-> [i \in 1..Len(weak) |-> weak[i].korean],
      priority_actions |-> get_priority_actions(assessments)]

\* Assessments with every selector but lincoln_guba and tracy taken as all
AssessmentsElseAll(criteria, research_description, strategies_used) ==
  (IF criteria # Chars("tracy")
   THEN assess_lincoln_guba(research_description, strategies_used) ELSE <<>>)
  \o (IF criteria # Chars("lincoln_guba")
      THEN assess_tracy(research_description, strategies_used) ELSE <<>>)

\* the assessments handle_assess_quality makes for a criteria selector
Assessments(criteria, research_description, strategies_used) ==
  (IF criteria = Chars("lincoln_guba") \/ criteria = Chars("all")
   THEN assess_lincoln_guba(research_description, strategies_used) ELSE <<>>)
  \o (IF criteria = Chars("tracy") \/ criteria = Chars("all")
      THEN assess_tracy(research_description, strategies_used) ELSE <<>>)

\* handle_assess_quality without the test of research_description
AssessQualityUnguarded(research_description, strategies_used, criteria) ==
  Return(AssessmentResult(criteria, research_description, strategies_used,
                          Assessments(criteria, research_description, strategies_used)))

\* the body of handle_assess_quality for the arguments read
AssessQuality(research_description, strategies_used, criteria) ==
  IF research_description = <<>>
  THEN Return([kind |-> "message",
               text |-> <<50672, 44396>> \o Chars(" ") \o <<49444, 47749>>
                          \o Chars("(research_description)") \o <<51012>> \o Chars(" ")
                          \o <<51077, 47141, 54644, 51452, 49464, 50836>> \o Chars(".")])
  ELSE Return(AssessmentResult(criteria, research_description, strategies_used,
                               Assessments(criteria, research_description, strategies_used)))

\* handle_assess_quality; the JSON text is given by the dict it serializes,
\* the percentage by the fraction percentage_num / percentage_den and by
\* its value in tenths as formatted with .1f
handle_assess_quality(args) ==
  AssessQuality(ArgOr(args, "research_description", <<>>),
                IF HasArg(args, "strategies_used") THEN args["strategies_used"] ELSE <<>>,
                ArgOr(args, "criteria", Chars("all")))

----------------------------------------------------------------------------
(* The remaining handlers *)

\* str.upper()
Upper(s) == [i \in 1..Len(s) |-> UpperChar(s[i])]

\* handle_suggest_methodology: the traditions suggested, in order
handle_suggest_methodology(args) ==
  LET rq == ArgOr(args, "research_question", <<>>)
      rq_lower == Lower(rq)
      in_rq(w) == Contains(w, rq)
      in_lower(w) == Contains(Chars(w), rq_lower)
      suggestions ==
        (IF in_rq(<<44221, 54744>>) \/ in_rq(<<52404, 54744>>) \/ in_lower("experience")
         THEN <<"phenomenology">> ELSE <<>>)
        \o (IF in_rq(<<44284, 51221>>) \/ in_rq(<<50612, 46523, 44172>>)
               \/ in_lower("process") \/ in_lower("how")
            THEN <<"grounded_theory">> ELSE <<>>)
        \o (IF in_rq(<<47928, 54868>>) \/ in_rq(<<51665, 45800>>) \/ in_lower("culture")
            THEN <<"ethnography">> ELSE <<>>)
        \o (IF in_rq(<<51060, 50556, 44592>>) \/ in_rq(<<49373, 50528>>)
               \/ in_lower("story") \/ in_lower("life")
            THEN <<"narrative">> ELSE <<>>)
        \o (IF in_rq(<<49324, 47168>>) \/ in_lower("case") \/ in_rq(<<50780>>) \/ in_lower("why")
            THEN <<"case_study">> ELSE <<>>)
      keys == IF suggestions = <<>>
              THEN <<"phenomenology", "grounded_theory", "case_study">> ELSE suggestions
  IN IF \E i \in 1..Len(keys) :
          \/ KeyIndex(TRADITIONS, Chars(keys[i])) = 0
          \/ Subscripts(TRADITIONS[KeyIndex(TRADITIONS, Chars(keys[i]))],
                        <<"sample_size", "analysis">>).ret = "raise"
     THEN Raise("KeyError")
     ELSE Return([kind |-> "suggestions", question |-> rq, methods |-> keys])

\* handle_conceptualize_idea
handle_conceptualize_idea(args) ==
  Return([kind |-> "conceptualize",
          idea |-> ArgOr(args, "idea", <<>>),
          field |-> ArgOr(args, "field", <<44221, 50689, 54617>>)])

\* handle_develop_proposition: the template chosen by rel_templates.get
handle_develop_proposition(args) ==
  LET relationship == ArgOr(args, "relationship", Chars("positive")) IN
  Return([kind |-> "proposition",
          concept_a |-> ArgOr(args, "concept_a", Chars("A")),
          concept_b |-> ArgOr(args, "concept_b", Chars("B")),
          relationship |-> relationship,
          template |-> IF relationship \in {Chars("positive"), Chars("negative"),
                                            Chars("moderation"), Chars("mediation")}
                       THEN relationship ELSE Chars("related")])

\* handle_review_paper: the guide chosen by review_guides.get and the
\* content cut to 500 characters
handle_review_paper(args) ==
  LET section == ArgOr(args, "paper_section", <<>>)
      content == ArgOr(args, "content", <<>>)
  IN Return([kind |-> "review",
             section |-> Upper(section),
             content |-> SubSeq(content, 1, Min(500, Len(content)))
                           \o (IF Len(content) > 500 THEN Chars("...") ELSE <<>>),
             guide |-> IF section \in {Chars("introduction"), Chars("literature"), Chars("method"),
                                       Chars("findings"), Chars("discussion")}
                       THEN section ELSE Chars("none")])

\* handle_guide_revision: the tips chosen by the comment type
handle_guide_revision(args) ==
  LET comment_type == ArgOr(args, "comment_type", Chars("major")) IN
  Return([kind |-> "revision",
          reviewer_comment |-> ArgOr(args, "reviewer_comment", <<>>),
          comment_type |-> Upper(comment_type),
          tips |-> IF comment_type = Chars("major") THEN "major"
                   ELSE IF comment_type = Chars("minor") THEN "minor"
                   ELSE "clarification"])

----------------------------------------------------------------------------
(* Tool dispatch and the JSON-RPC endpoint *)

\* the operation catalog: the names of TOOLS, in order
TOOLS ==
  <<"search_knowledge", "get_paradigm", "get_tradition", "suggest_methodology",
    "get_coding_guide", "assess_quality", "get_journal_guide", "diagnose_rejection",
    "conceptualize_idea", "develop_proposition", "review_paper", "guide_revision">>

\* the handlers dict of handle_tool_call without the entry of guide_revision
HandlersWithoutGuideRevision ==
  {"search_knowledge", "get_paradigm", "get_tradition", "suggest_methodology",
   "get_coding_guide", "assess_quality", "get_journal_guide", "diagnose_rejection",
   "conceptualize_idea", "develop_proposition", "review_paper"}

\* the keys of the handlers dict of handle_tool_call
Handlers ==
  {"search_knowledge", "get_paradigm", "get_tradition", "suggest_methodology",
   "get_coding_guide", "assess_quality", "get_journal_guide", "diagnose_rejection",
   "conceptualize_idea", "develop_proposition", "review_paper", "guide_revision"}

\* handler(arguments) for the handlers that read no global but the tables
PureHandler(name, arguments) ==
  CASE name = "get_paradigm" -> handle_get_paradigm(arguments)
    [] name = "get_tradition" -> handle_get_tradition(arguments)
    [] name = "suggest_methodology" -> handle_suggest_methodology(arguments)
    [] name = "get_coding_guide" -> handle_get_coding_guide(arguments)
    [] name = "assess_quality" -> handle_assess_quality(arguments)
    [] name = "get_journal_guide" -> handle_get_journal_guide(arguments)
    [] name = "diagnose_rejection" -> handle_diagnose_rejection(arguments)
    [] name = "conceptualize_idea" -> handle_conceptualize_idea(arguments)
    [] name = "develop_proposition" -> handle_develop_proposition(arguments)
    [] name = "review_paper" -> handle_review_paper(arguments)
    [] name = "guide_revision" -> handle_guide_revision(arguments)

\* ToolResult with the state of the vector store in the dict returned
ToolResultWithStore(h) ==
  [vector_store |-> h.vector_store, rag |-> h.rag,
   out |-> IF h.out.ret = "raise" THEN h.out
           ELSE Return([content |-> h.out.value, isError |-> FALSE, store |-> h.vector_store])]

\* the dict handle_tool_call returns for a handler outcome h, or its exception
\* (isError FALSE stands for a dict without the isError key)
ToolResult(h) ==
  [vector_store |-> h.vector_store, rag |-> h.rag,
   out |-> IF h.out.ret = "raise" THEN h.out
           ELSE Return([content |-> h.out.value, isError |-> FALSE])]

\* handle_tool_call: the global vector_store afterwards, the outcome of the
\* search_chromadb call made (<<>> when none) and the dict returned or the exception
handle_tool_call(name, arguments, store, st_available, chromadb_available, e) ==
  IF name \notin Handlers
  THEN [vector_store |-> store, rag |-> <<>>,
        out |-> Return([content |-> [kind |-> "unknown_tool", name |-> name], isError |-> TRUE])]
  ELSE ToolResult(IF name = "search_knowledge"
                  THEN handle_search_knowledge(arguments, store, st_available,
                                               chromadb_available, e)
                  ELSE [vector_store |-> store, rag |-> <<>>,
                        out |-> PureHandler(name, arguments)])

\* the id of a request body, 0 standing for None
NoId == 0

\* the id of the except branch of mcp_endpoint in place of body.get("id")
BodyIdNone(body) == NoId

\* body.get("id")
BodyId(body) == IF "id" \in DOMAIN body THEN body.id ELSE NoId

\* params.get("name", "") and the arguments dict of a tools/call body
ParamsName(body) ==
  IF "params" \in DOMAIN body /\ "name" \in DOMAIN body.params THEN body.params.name ELSE ""
ParamsArguments(body) ==
  IF "params" \in DOMAIN body /\ "arguments" \in DOMAIN body.params
  THEN body.params.arguments ELSE <<>>

\* the response of the except branch of mcp_endpoint
InternalError(exc) ==
  [status |-> 400, error |-> [code |-> -32603, message |-> exc], id |-> NoId]

\* the tools/call branch of mcp_endpoint outside the try: an exception of
\* handle_tool_call leaves the endpoint and no response is made
ToolCallResponseUncaught(body, r) ==
  [vector_store |-> r.vector_store, rag |-> r.rag,
   response |-> IF r.out.ret = "raise" THEN <<>>
                ELSE [status |-> 200, result |-> r.out.value, id |-> BodyId(body)]]

\* the tools/call branch of mcp_endpoint for the outcome r of handle_tool_call
ToolCallResponse(body, r) ==
  [vector_store |-> r.vector_store, rag |-> r.rag,
   response |-> IF r.out.ret = "raise" THEN InternalError(r.out.exc)
                ELSE [status |-> 200, result |-> r.out.value, id |-> BodyId(body)]]

\* mcp_endpoint: the global vector_store afterwards, the search_chromadb
\* outcome and the HTTP response
mcp_endpoint(body, store, st_available, chromadb_available, e) ==
  IF "malformed" \in DOMAIN body
  THEN [vector_store |-> store, rag |-> <<>>, response |-> InternalError("JSONDecodeError")]
  ELSE IF body.method = "initialize"
  THEN [vector_store |-> store, rag |-> <<>>,
        response |-> [status |-> 200, result |-> [kind |-> "initialize"], id |-> BodyId(body)]]
  ELSE IF body.method = "tools/list"
  THEN [vector_store |-> store, rag |-> <<>>,
        response |-> [status |-> 200, result |-> [kind |-> "tools", tools |-> TOOLS],
                      id |-> BodyId(body)]]
  ELSE IF body.method = "tools/call"
  THEN ToolCallResponse(body, handle_tool_call(ParamsName(body), ParamsArguments(body),
                                               store, st_available, chromadb_available, e))
  ELSE [vector_store |-> store, rag |-> <<>>,
        response |-> [status |-> 200, error |-> [code |-> -32601, message |-> "Method not found"],
                      id |-> BodyId(body)]]

----------------------------------------------------------------------------
(* Inputs *)

\* the fragments research descriptions are assembled from (joined by a blank)
Fragments ==
  << <<49340, 44033, 44160, 51613, 51012>> \o Chars(" ") \o <<49892, 49884, 54664, 45796>>,
     Chars("thick description purposeful audit_trail"),
     Chars("prolonged triangulation peer"),
     Chars("Member-Checking ") \o <<48512, 51221, 51201>> \o Chars(" ") \o <<49324, 47168>>,
     <<50980, 47532>> \o Chars(" ") \o <<46041, 51032, 49436>> \o Chars(" ") \o <<51061, 47749, 54868>> \o Chars(" ") \o <<48372, 54840>> \o Chars(" IRB ") \o <<49849, 51064>> \o Chars(" ") \o <<52384, 54924>> \o Chars(" ") \o <<48124, 44048, 51221, 48372>>,
     Chars("xyz") >>

\* the strings strategies_used lists are made of
StrategyStrings ==
  << <<>>,
     <<52280, 50668, 51088>> \o Chars(" ") \o <<54869, 51064>> >>

\* the query strings of search_knowledge
Queries ==
  { <<>>,
     <<54788, 49345, 54617>>,
     <<51060, 47200>>,
     <<51452, 51228>>,
     Chars("amr"),
     Chars("AMR"),
     Chars("positivism"),
     <<49888, 47280, 49457>>,
     Chars("credibility"),
     Chars("zzz"),
     <<54413, 48512, 54620>>,
     Chars("so what") }

\* the sequences over 1..n of length at most k
SeqsUpTo(n, k) == UNION {[1..m -> 1..n] : m \in 0..k}

\* the research descriptions of at most k fragments
Descriptions(k) ==
  {Join(Chars(" "), [i \in 1..Len(s) |-> Fragments[s[i]]]) : s \in SeqsUpTo(Len(Fragments), k)}

\* the strategies_used lists of at most k strings
StrategyLists(k) ==
  {[i \in 1..Len(s) |-> StrategyStrings[s[i]]] : s \in SeqsUpTo(Len(StrategyStrings), k)}

\* the argument dicts {p: v} for v in V, and the dict without p
Arg(p, V) == {<<>>} \cup {[x \in {p} |-> v] : v \in V}

\* the union of two argument dicts with different keys
Merge(f, g) == [x \in DOMAIN f \cup DOMAIN g |-> IF x \in DOMAIN f THEN f[x] ELSE g[x]]

\* the values tried for an enumerated argument: its enumeration and one string outside it
EnumValues(enum) == {Chars(enum[i]) : i \in 1..Len(enum)} \cup {Chars("marxism")}

\* the input schemas of TOOLS: the required properties and the enumerations, in schema order
Required(name) ==
  CASE name = "search_knowledge" -> {"query"}
    [] name = "get_paradigm" -> {"paradigm"}
    [] name = "get_tradition" -> {"tradition"}
    [] name = "suggest_methodology" -> {"research_question"}
    [] name = "get_coding_guide" -> {"coding_type"}
    [] name = "assess_quality" -> {"research_description"}
    [] name = "get_journal_guide" -> {"journal"}
    [] name = "diagnose_rejection" -> {"rejection_type"}
    [] name = "conceptualize_idea" -> {"idea"}
    [] name = "develop_proposition" -> {"concept_a", "concept_b"}
    [] name = "review_paper" -> {"paper_section", "content"}
    [] name = "guide_revision" -> {"reviewer_comment"}

Enum(name) ==
  CASE name = "search_knowledge" ->
         [category |-> <<"paradigms", "traditions", "coding", "quality", "journals", "rejection">>]
    [] name = "get_paradigm" ->
         [paradigm |-> <<"positivism", "postpositivism", "critical_theory", "constructivism">>]
    [] name = "get_tradition" ->
         [tradition |-> <<"phenomenology", "grounded_theory", "ethnography", "narrative", "case_study">>]
    [] name = "suggest_methodology" ->
         [focus |-> <<"experience", "theory_building", "culture", "story", "case">>]
    [] name = "get_coding_guide" ->
         [coding_type |-> <<"open_coding", "axial_coding", "selective_coding", "invivo_coding",
                            "thematic_analysis">>]
    [] name = "assess_quality" -> [criteria |-> <<"lincoln_guba", "tracy", "all">>]
    [] name = "get_journal_guide" -> [journal |-> <<"amr", "asq">>]
    [] name = "diagnose_rejection" -> [rejection_type |-> <<"so_what", "old_wine", "logic_gap">>]
    [] name = "conceptualize_idea" -> <<>>
    [] name = "develop_proposition" ->
         [relationship |-> <<"positive", "negative", "moderation", "mediation">>]
    [] name = "review_paper" ->
         [paper_section |-> <<"introduction", "literature", "method", "findings", "discussion">>]
    [] name = "guide_revision" -> [comment_type |-> <<"major", "minor", "clarification">>]

\* the arguments of a tools/call violate the input schema of the tool
ViolatesSchema(name, args) ==
  \/ \E p \in Required(name) : ~HasArg(args, p)
  \/ \E p \in DOMAIN Enum(name) :
        HasArg(args, p) /\ args[p] \notin {Chars(Enum(name)[p][i]) : i \in 1..Len(Enum(name)[p])}

\* the argument dicts tried for each tool by the server specification
ToolArgs(name) ==
  CASE name = "search_knowledge" ->
         {Merge(a, b) : a \in Arg("query", {<<54788, 49345, 54617>>, Chars("zzz")}),
                        b \in Arg("category", {Chars("paradigms"), Chars("marxism")})}
    [] name = "get_paradigm" -> Arg("paradigm", EnumValues(Enum(name).paradigm))
    [] name = "get_tradition" -> Arg("tradition", EnumValues(Enum(name).tradition))
    [] name = "suggest_methodology" ->
         {Merge(a, b) : a \in Arg("research_question",
                                  {<<47532, 45908, 51032>> \o Chars(" ") \o <<44221, 54744>>, Chars("How and why"), Chars("xyz")}),
                        b \in Arg("focus", {Chars("experience"), Chars("marxism")})}
    [] name = "get_coding_guide" -> Arg("coding_type", EnumValues(Enum(name).coding_type))
    [] name = "assess_quality" ->
         {Merge(a, Merge(b, c)) :
            a \in Arg("research_description", {Fragments[1]}),
            b \in Arg("strategies_used", {<<StrategyStrings[1]>>}),
            c \in Arg("criteria", {Chars("tracy"), Chars("marxism")})}
    [] name = "get_journal_guide" -> Arg("journal", EnumValues(Enum(name).journal))
    [] name = "diagnose_rejection" -> Arg("rejection_type", EnumValues(Enum(name).rejection_type))
    [] name = "conceptualize_idea" ->
         {Merge(a, b) : a \in Arg("idea", {Chars("AI")}), b \in Arg("field", {Chars("HR")})}
    [] name = "develop_proposition" ->
         {Merge(a, Merge(b, c)) :
            a \in Arg("concept_a", {Chars("trust")}),
            b \in Arg("concept_b", {Chars("voice")}),
            c \in Arg("relationship", {Chars("mediation"), Chars("marxism")})}
    [] name = "review_paper" ->
         {Merge(a, b) : a \in Arg("paper_section", {Chars("method"), Chars("marxism")}),
                        b \in Arg("content", {Chars("draft"), [i \in 1..501 |-> 120]})}
    [] name = "guide_revision" ->
         {Merge(a, b) : a \in Arg("reviewer_comment", {Chars("unclear")}),
                        b \in Arg("comment_type", {Chars("minor"), Chars("marxism")})}

\* a tools/call request body
ToolCall(name, args) ==
  [method |-> "tools/call", id |-> 1, params |-> [name |-> name, arguments |-> args]]

\* the request bodies of the server specification
Requests ==
  {[malformed |-> TRUE]}
    \cup {[method |-> m, id |-> 1] : m \in {"initialize", "tools/list", "tools/call", "ping"}}
    \cup {[method |-> m] : m \in {"initialize", "ping"}}
    \cup {ToolCall("export_data", <<>>)}
    \cup UNION {{ToolCall(TOOLS[i], a) : a \in ToolArgs(TOOLS[i])} : i \in 1..Len(TOOLS)}

\* the search_knowledge requests of the search specification
SearchRequests ==
  {ToolCall("search_knowledge", Merge(a, b)) :
     a \in Arg("query", Queries),
     b \in Arg("category", EnumValues(Enum("search_knowledge").category) \cup {<<>>})}

\* the assess_quality requests of the scorer specification
AssessRequests ==
  {ToolCall("assess_quality", Merge(a, Merge(b, c))) :
     a \in Arg("research_description", Descriptions(MaxFragments)),
     b \in Arg("strategies_used", StrategyLists(MaxStrategies) \ {<<>>}),
     c \in Arg("criteria", EnumValues(Enum("assess_quality").criteria))}

----------------------------------------------------------------------------
(* The server as a state machine *)

VARIABLES
  pc,                              \* "start", "idle", "pending" or "responded"
  CHROMADB_AVAILABLE,              \* the import of chromadb succeeded
  SENTENCE_TRANSFORMER_AVAILABLE,  \* the import of sentence_transformers succeeded
  vector_store,                    \* the global vector_store: <<>> (None) or <<store>>
  init_result,                     \* <<>>, or <<[env, value]>> of the init_chromadb call of lifespan
  request,                         \* the body of the POST /mcp request in progress, <<>> if none
  response,                        \* its response, <<>> if none yet
  rag,                             \* <<>>, or the outcome of its search_chromadb call
  env                              \* the behaviour of the model and the index during the operation

vars ==
  <<pc, CHROMADB_AVAILABLE, SENTENCE_TRANSFORMER_AVAILABLE, vector_store, init_result,
    request, response, rag, env>>

\* no external step is taken
NoEnv == [fault |-> "none", ndocs |-> 0, rank |-> 1]

\* the environments of init_chromadb, which neither encodes nor queries
InitEnvs == {e \in Envs : e.fault \notin {"encode", "query"} /\ e.rank = 1}

\* the request is a tools/call of the tool
IsCall(body, name) ==
  /\ "method" \in DOMAIN body
  /\ body.method = "tools/call"
  /\ ParamsName(body) = name

\* module import and the globals before startup
Init ==
  /\ pc = "start"
  /\ CHROMADB_AVAILABLE \in BOOLEAN
  /\ SENTENCE_TRANSFORMER_AVAILABLE \in BOOLEAN
  /\ vector_store = <<>>
  /\ init_result = <<>>
  /\ request = <<>>
  /\ response = <<>>
  /\ rag = <<>>
  /\ env = NoEnv

\* the effect of init_chromadb with outcome r in environment e
Started(e, r) ==
  /\ vector_store' = r.vector_store
  /\ init_result' = <<[env |-> e, value |-> r.out.value]>>

\* lifespan: startup calls init_chromadb once
Lifespan ==
  /\ pc = "start"
  /\ \E e \in InitEnvs :
       /\ Started(e, init_chromadb(vector_store, CHROMADB_AVAILABLE, e))
       /\ env' = e
  /\ pc' = "idle"
  /\ UNCHANGED <<CHROMADB_AVAILABLE, SENTENCE_TRANSFORMER_AVAILABLE, request, response, rag>>

\* a POST /mcp request arrives
Receive ==
  /\ pc = "idle"
  /\ \E body \in Requests : request' = body
  /\ pc' = "pending"
  /\ env' = NoEnv
  /\ UNCHANGED <<CHROMADB_AVAILABLE, SENTENCE_TRANSFORMER_AVAILABLE, vector_store, init_result,
                 response, rag>>

\* the effect of mcp_endpoint with outcome r
Handled(r) ==
  /\ response' = r.response
  /\ vector_store' = r.vector_store
  /\ rag' = r.rag

\* mcp_endpoint handles the request; the model and the index are consulted
\* only by a search with a vector store
McpEndpoint ==
  /\ pc = "pending"
  /\ \E e \in (IF IsCall(request, "search_knowledge") /\ vector_store # <<>>
               THEN Envs \ {x \in Envs : x.fault = "path"} ELSE {NoEnv}) :
       /\ Handled(mcp_endpoint(request, vector_store, SENTENCE_TRANSFORMER_AVAILABLE,
                               CHROMADB_AVAILABLE, e))
       /\ env' = e
  /\ pc' = "responded"
  /\ UNCHANGED <<CHROMADB_AVAILABLE, SENTENCE_TRANSFORMER_AVAILABLE, init_result, request>>

\* the response is sent
Reply ==
  /\ pc = "responded"
  /\ pc' = "idle"
  /\ request' = <<>>
  /\ response' = <<>>
  /\ rag' = <<>>
  /\ env' = NoEnv
  /\ UNCHANGED <<CHROMADB_AVAILABLE, SENTENCE_TRANSFORMER_AVAILABLE, vector_store, init_result>>

Next == Lifespan \/ Receive \/ McpEndpoint \/ Reply

\* the server: startup, then requests one after the other
Spec == Init /\ [][Next]_vars

\* search_knowledge applied to each query and category, no vector store
InitSearch ==
  /\ pc = "pending"
  /\ CHROMADB_AVAILABLE \in BOOLEAN
  /\ SENTENCE_TRANSFORMER_AVAILABLE \in BOOLEAN
  /\ vector_store = <<>>
  /\ init_result = <<>>
  /\ request \in SearchRequests
  /\ response = <<>>
  /\ rag = <<>>
  /\ env = NoEnv

SpecSearch == InitSearch /\ [][McpEndpoint]_vars

\* assess_quality applied to each description, strategy list and criteria
InitAssess ==
  /\ pc = "pending"
  /\ CHROMADB_AVAILABLE = FALSE
  /\ SENTENCE_TRANSFORMER_AVAILABLE = FALSE
  /\ vector_store = <<>>
  /\ init_result = <<>>
  /\ request \in AssessRequests
  /\ response = <<>>
  /\ rag = <<>>
  /\ env = NoEnv

SpecAssess == InitAssess /\ [][McpEndpoint]_vars


\* the first keyword of each of the first k strategies of a Lincoln & Guba criterion
FirstKeywords(c, k) ==
  [i \in 1..Min(k, Len(c.strategies)) |-> c.strategies[i].keywords[1]]

\* the first k indicators of a Tracy criterion
FirstIndicators(c, k) == SubSeq(c.indicators, 1, Min(k, Len(c.indicators)))

\* a research description that names k[i] strategies of the i-th Lincoln & Guba
\* criterion, t1 indicators of each of the first four Tracy criteria and t2 of
\* each of the others, the names separated by blanks
KeywordDescription(k, t1, t2) ==
  Join(Chars(" "),
       [i \in 1..Len(LincolnGubaCriteria) |->
          Join(Chars(" "), FirstKeywords(LincolnGubaCriteria[i], k[i]))]
         \o [i \in 1..Len(TracyCriteria) |->
               Join(Chars(" "), FirstIndicators(TracyCriteria[i], IF i <= 4 THEN t1 ELSE t2))])

\* the numbers of strategies named per Lincoln & Guba criterion
StrategyCounts ==
  {k \in [1..Len(LincolnGubaCriteria) -> 0..6] :
     \A i \in 1..Len(LincolnGubaCriteria) : k[i] <= Len(LincolnGubaCriteria[i].strategies)}

\* the assess_quality requests of the grade specification: every score of
\* lincoln_guba, a grid of scores of tracy and of all
GradeRequests ==
  {ToolCall("assess_quality",
            [research_description |-> KeywordDescription(k, 0, 0),
             criteria |-> Chars("lincoln_guba")]) : k \in StrategyCounts}
    \cup {ToolCall("assess_quality",
                   [research_description |-> KeywordDescription([i \in 1..4 |-> 0], t[1], t[2]),
                    criteria |-> Chars("tracy")]) : t \in (0..13) \X (0..13)}
    \cup {ToolCall("assess_quality",
                   [research_description |->
                      KeywordDescription([i \in 1..4 |-> u[1]], u[2], u[3])]) :
            u \in (0..6) \X {0, 3, 6, 9, 13} \X {0, 3, 6, 9, 13}}

\* assess_quality applied to descriptions of every score
InitGrade ==
  /\ pc = "pending"
  /\ CHROMADB_AVAILABLE = FALSE
  /\ SENTENCE_TRANSFORMER_AVAILABLE = FALSE
  /\ vector_store = <<>>
  /\ init_result = <<>>
  /\ request \in GradeRequests
  /\ response = <<>>
  /\ rag = <<>>
  /\ env = NoEnv

SpecGrade == InitGrade /\ [][McpEndpoint]_vars

\* t with the character sep inserted after its first i characters
Insert(t, i, sep) == SubSeq(t, 1, i) \o <<sep>> \o SubSeq(t, i + 1, Len(t))

\* t with the character sep between every two characters
Spaced(t, sep) ==
  [j \in 1..(2 * Len(t) - 1) |-> IF j % 2 = 1 THEN t[(j + 1) \div 2] ELSE sep]

\* blank, tab, underscore and hyphen: characters normalize_text removes
Separators == {32, 9, 95, 45}

\* the texts that differ from t only by letter case, by separators inserted
\* or removed, or by the synonym written the other way
Variants(t) ==
  {Upper(t), Lower(t), StripSeparators(t),
   Replace(t, <<44160, 53664>>, <<44160, 51613>>),
   Replace(t, <<44160, 51613>>, <<44160, 53664>>)}
    \cup {Spaced(t, sep) : sep \in Separators}
    \cup {Insert(t, i, sep) : i \in 0..Len(t), sep \in Separators}

\* the strategies_used lists whose strings are varied the same way
ListVariants(l) ==
  {[j \in 1..Len(l) |-> Upper(l[j])], [j \in 1..Len(l) |-> StripSeparators(l[j])],
   [j \in 1..Len(l) |-> Replace(l[j], <<44160, 53664>>, <<44160, 51613>>)]}
    \cup {[j \in 1..Len(l) |-> Spaced(l[j], sep)] : sep \in Separators}

\* the strategies_used lists of the normalization specification
VariantStrategies ==
  {<<StrategyStrings[2]>>,
   <<Chars("Peer Debriefing"), <<49340, 44033>> \o Chars(" ") \o <<44160, 53664>>>>}

\* the assess_quality requests of the normalization specification
VariantRequests ==
  {ToolCall("assess_quality", Merge(a, Merge(b, c))) :
     a \in {[research_description |-> Fragments[i]] : i \in 1..Len(Fragments)},
     b \in Arg("strategies_used", VariantStrategies),
     c \in Arg("criteria", {Chars("lincoln_guba"), Chars("tracy"), Chars("all")})}

\* assess_quality applied to each fragment
InitVariant ==
  /\ pc = "pending"
  /\ CHROMADB_AVAILABLE = FALSE
  /\ SENTENCE_TRANSFORMER_AVAILABLE = FALSE
  /\ vector_store = <<>>
  /\ init_result = <<>>
  /\ request \in VariantRequests
  /\ response = <<>>
  /\ rag = <<>>
  /\ env = NoEnv

SpecVariant == InitVariant /\ [][McpEndpoint]_vars

\* the application shuts down; the module and its global vector_store stay
\* loaded, and lifespan runs again when the application is started again
Shutdown ==
  /\ pc = "idle"
  /\ pc' = "start"
  /\ env' = NoEnv
  /\ UNCHANGED <<CHROMADB_AVAILABLE, SENTENCE_TRANSFORMER_AVAILABLE, vector_store, init_result,
                 request, response, rag>>

\* the search_knowledge requests of the restart specification
RestartRequests ==
  {ToolCall("search_knowledge", [query |-> q]) : q \in {<<54788, 49345, 54617>>, Chars("zzz")}}

\* a search_knowledge request arrives
ReceiveSearch ==
  /\ pc = "idle"
  /\ \E body \in RestartRequests : request' = body
  /\ pc' = "pending"
  /\ env' = NoEnv
  /\ UNCHANGED <<CHROMADB_AVAILABLE, SENTENCE_TRANSFORMER_AVAILABLE, vector_store, init_result,
                 response, rag>>

NextRestart == Lifespan \/ Shutdown \/ ReceiveSearch \/ McpEndpoint \/ Reply

\* the server started several times in one process, searches in between
SpecRestart == Init /\ [][NextRestart]_vars
----------------------------------------------------------------------------
(* Properties *)

\* C1: for every lookup tool (get_paradigm, get_tradition, get_coding_guide,
\* get_journal_guide, diagnose_rejection) and every key of the tool's schema
\* enumeration, the call returns the entry of that key rendered as text: the
\* response is a status 200 result, never an exception or a transport error.
C1_ListedKeyReturnsEntry ==
  \A name \in {"get_paradigm", "get_tradition", "get_coding_guide", "get_journal_guide",
               "diagnose_rejection"} :
    (pc = "responded" /\ IsCall(request, name)
       /\ ~ViolatesSchema(name, ParamsArguments(request)))
    => /\ response.status = 200
       /\ "result" \in DOMAIN response
       /\ response.result.isError = FALSE
       /\ response.result.content.kind = "entry"
       /\ \A p \in DOMAIN Enum(name) :
             Chars(response.result.content.key) = ParamsArguments(request)[p]

\* C2: a lookup whose key is not in the table of its category (an absent key
\* argument included) gets a status 200 result that is not an error, whose
\* text ends with the keys of that table, in table order, separated by ", "
\* (for get_paradigm: positivism, postpositivism, critical_theory, constructivism).
C2_UnknownKeyListsValidKeys ==
  \A t \in {<<"get_paradigm", "paradigm", PARADIGMS>>,
            <<"get_tradition", "tradition", TRADITIONS>>,
            <<"get_coding_guide", "coding_type", CODING_TYPES>>,
            <<"get_journal_guide", "journal", JOURNALS>>,
            <<"diagnose_rejection", "rejection_type", REJECTION_PATTERNS>>} :
    (pc = "responded" /\ IsCall(request, t[1])
       /\ (HasArg(ParamsArguments(request), t[2])
             => \A i \in 1..Len(t[3]) : ParamsArguments(request)[t[2]] # Chars(t[3][i].key)))
    => /\ response.status = 200
       /\ "result" \in DOMAIN response
       /\ "error" \notin DOMAIN response
       /\ response.result.isError = FALSE
       /\ response.result.content.kind = "unknown_key"
       /\ LET text == response.result.content.text
              listed == Chars(": ") \o Join(Chars(", "), [i \in 1..Len(t[3]) |-> Chars(t[3][i].key)])
          IN /\ Len(text) > Len(listed)
             /\ SubSeq(text, Len(text) - Len(listed) + 1, Len(text)) = listed
             /\ (t[1] = "get_paradigm"
                   => listed = Chars(": positivism, postpositivism, critical_theory, constructivism"))

\* C2 witness: get_paradigm with paradigm "marxism" was answered with the unknown key text
C2_Witness ==
  /\ pc = "responded"
  /\ IsCall(request, "get_paradigm")
  /\ HasArg(ParamsArguments(request), "paradigm")
  /\ ParamsArguments(request)["paradigm"] = Chars("marxism")
  /\ "result" \in DOMAIN response
  /\ response.result.content.kind = "unknown_key"

\* C3: when search_knowledge returns, its exact-match results are, for every
\* selected category of the six schema categories (all six without a filter),
\* exactly the entries whose key, case-folded name or case-folded full text
\* contains the case-folded query.
C3_SearchReturnsEveryMatch ==
  (pc = "responded" /\ IsCall(request, "search_knowledge") /\ "result" \in DOMAIN response)
  => LET args == ParamsArguments(request)
         query == Lower(ArgOr(args, "query", <<>>))
         content == response.result.content
         shown == IF content.kind = "search_results" THEN content.exact ELSE <<>>
     IN \A t \in {<<"paradigms", "PARADIGMS", PARADIGMS>>,
                  <<"traditions", "TRADITIONS", TRADITIONS>>,
                  <<"coding", "CODING_TYPES", CODING_TYPES>>,
                  <<"quality", "QUALITY_CRITERIA", QUALITY_CRITERIA>>,
                  <<"journals", "JOURNALS", JOURNALS>>,
                  <<"rejection", "REJECTION_PATTERNS", REJECTION_PATTERNS>>} :
          \A i \in 1..Len(t[3]) :
             (\E k \in 1..Len(shown) : shown[k] = [table |-> t[2], key |-> t[3][i].key])
             <=> /\ Selected(args, t[1])
                 /\ \/ Contains(query, Chars(t[3][i].key))
                    \/ Contains(query, Lower(FieldValue(t[3][i], "name")))
                    \/ Contains(query, Lower(StrOfEntry(t[3][i])))

\* C4: with vector_store None, search_knowledge raises for no query and no
\* category filter (empty and absent query included), and its output holds
\* the exact-match results: every entry of a selected table whose key
\* contains the case-folded query.
C4_SearchWithoutVectorStore ==
  (pc = "responded" /\ IsCall(request, "search_knowledge") /\ vector_store = <<>>)
  => /\ response.status = 200
     /\ "result" \in DOMAIN response
     /\ LET args == ParamsArguments(request)
            query == Lower(ArgOr(args, "query", <<>>))
            content == response.result.content
            shown == IF content.kind = "search_results" THEN content.exact ELSE <<>>
        IN \A t \in {<<"paradigms", "PARADIGMS", PARADIGMS>>,
                     <<"traditions", "TRADITIONS", TRADITIONS>>,
                     <<"coding", "CODING_TYPES", CODING_TYPES>>,
                     <<"journals", "JOURNALS", JOURNALS>>,
                     <<"rejection", "REJECTION_PATTERNS", REJECTION_PATTERNS>>} :
             \A i \in 1..Len(t[3]) :
                (Selected(args, t[1]) /\ Contains(query, Chars(t[3][i].key)))
                => \E k \in 1..Len(shown) : shown[k] = [table |-> t[2], key |-> t[3][i].key]

\* C5: a tools/call of any of the 12 tools whose arguments omit a required
\* field or give a value outside an enumeration gets a JSON-RPC result with
\* a text payload: never an error object, never code -32603, never HTTP 400.
C5_InvalidInputGetsTextResult ==
  (pc = "responded" /\ "method" \in DOMAIN request /\ request.method = "tools/call"
     /\ ParamsName(request) \in Handlers
     /\ ViolatesSchema(ParamsName(request), ParamsArguments(request)))
  => /\ response.status = 200
     /\ "error" \notin DOMAIN response
     /\ "result" \in DOMAIN response
     /\ response.result.isError = FALSE

\* C6: whenever handle_search_knowledge calls search_chromadb, neither
\* QualMasterVectorStore.search nor search_chromadb raises; if the encoder is
\* unavailable or fails to load, the collection cannot be opened, or encode
\* or query raises, both give the empty list; and the request completes with
\* a status 200 result.
C6_VectorSearchNeverPropagates ==
  [][(pc = "pending" /\ pc' = "responded" /\ rag' # <<>>)
     => LET o == rag'[1]
            failed ==
              /\ vector_store # <<>>
              /\ \/ /\ vector_store[1]._encoder = "None"
                    /\ (~SENTENCE_TRANSFORMER_AVAILABLE \/ env'.fault = "model")
                 \/ env'.fault = "encode"
                 \/ /\ vector_store[1]._collection = "None"
                    /\ env'.fault \in {"client", "collection", "count"}
                 \/ env'.fault = "query"
        IN /\ o.out.ret = "return"
           /\ vector_store # <<>> => (o.search # <<>> /\ o.search[1].ret = "return")
           /\ vector_store = <<>> => o.out.value = <<>>
           /\ failed => (o.search[1].value = <<>> /\ o.out.value = <<>>)
           /\ response'.status = 200
           /\ "result" \in DOMAIN response']_vars

\* C6 witness: a search_knowledge request whose index query raised was
\* answered, the vector search having returned the empty list
C6_Witness ==
  /\ pc = "responded"
  /\ rag # <<>>
  /\ rag[1].search # <<>>
  /\ env.fault = "query"
  /\ rag[1].search[1] = Return(<<>>)
  /\ "result" \in DOMAIN response

\* C7: init_chromadb returns False whenever the index path does not exist,
\* the index library is not installed, or the embedding model is not available.
C7_InitReportsFailure ==
  init_result # <<>>
  => ((\/ init_result[1].env.fault = "path"
       \/ ~CHROMADB_AVAILABLE
       \/ ~SENTENCE_TRANSFORMER_AVAILABLE
       \/ init_result[1].env.fault = "model")
      => (init_result[1].value = FALSE /\ vector_store = <<>>))

\* C8: in assess_lincoln_guba a strategy is reported as applied if and only
\* if one of its keywords, normalized, is a substring of the normalized
\* description or of the normalized form of a supplied strategies_used
\* string, or, case-folded, is a substring of the case-folded description.
C8_StrategyMatchedIffKeywordFound ==
  (pc = "responded" /\ IsCall(request, "assess_quality") /\ "result" \in DOMAIN response
     /\ response.result.content.kind = "assessment"
     /\ response.result.content.criteria_used \in {Chars("lincoln_guba"), Chars("all")})
  => LET args == ParamsArguments(request)
         description == args["research_description"]
         supplied == IF HasArg(args, "strategies_used") THEN args["strategies_used"] ELSE <<>>
         detailed == response.result.content.detailed_assessment
     IN \A i \in 1..Len(LincolnGubaCriteria) :
          \A j \in 1..Len(LincolnGubaCriteria[i].strategies) :
             LET s == LincolnGubaCriteria[i].strategies[j] IN
             (\E a \in 1..Len(detailed[i].strategies_applied) :
                 detailed[i].strategies_applied[a] = s.korean)
             <=> \E k \in 1..Len(s.keywords) :
                    \/ Contains(normalize_text(s.keywords[k]), normalize_text(description))
                    \/ \E u \in 1..Len(supplied) :
                          Contains(normalize_text(s.keywords[k]), normalize_text(supplied[u]))
                    \/ Contains(Lower(s.keywords[k]), Lower(description))

\* C9: every criterion score of an assessment is an integer from 0 to the
\* max_score of the criterion, and for every criteria selector the overall
\* percentage is sum(scores) / sum(max_scores) * 100 and lies in [0, 100].
C9_ScoresWithinBounds ==
  (pc = "responded" /\ IsCall(request, "assess_quality") /\ "result" \in DOMAIN response
     /\ response.result.content.kind = "assessment")
  => LET c == response.result.content
         detailed == c.detailed_assessment
     IN /\ \A i \in 1..Len(detailed) :
             /\ detailed[i].score \in Int
             /\ 0 <= detailed[i].score
             /\ detailed[i].score <= detailed[i].max_score
        /\ 0 <= c.percentage_num
        /\ c.percentage_num <= 100 * c.percentage_den
        /\ c.percentage_den > 0
        /\ Sum(detailed, "max_score") > 0
             => c.percentage_num * Sum(detailed, "max_score")
                  = 100 * Sum(detailed, "score") * c.percentage_den
        /\ c.percentage_tenths \in 0..1000

\* C9 witness: an assessment by both rubrics with a criterion scored
\* strictly between 0 and its max_score and one scored at its max_score
C9_Witness ==
  /\ pc = "responded"
  /\ IsCall(request, "assess_quality")
  /\ "result" \in DOMAIN response
  /\ response.result.content.kind = "assessment"
  /\ response.result.content.criteria_used = Chars("all")
  /\ \E i \in 1..Len(response.result.content.detailed_assessment) :
        LET a == response.result.content.detailed_assessment[i]
        IN 0 < a.score /\ a.score < a.max_score
  /\ \E i \in 1..Len(response.result.content.detailed_assessment) :
        LET a == response.result.content.detailed_assessment[i]
        IN a.score = a.max_score

\* C10: each of the four Lincoln & Guba criteria, of n strategies with k
\* applied, has max_score 25 and score the integer nearest to 25 * k / n
\* (the even one of two equally near): 0 for k = 0 and 25 for k = n, and the
\* four maxima sum to 100.
C10_LincolnGubaScore ==
  (pc = "responded" /\ IsCall(request, "assess_quality") /\ "result" \in DOMAIN response
     /\ response.result.content.kind = "assessment"
     /\ response.result.content.criteria_used \in {Chars("lincoln_guba"), Chars("all")})
  => LET detailed == response.result.content.detailed_assessment
     IN /\ Len(LincolnGubaCriteria) = 4
        /\ Len(detailed) >= 4
        /\ detailed[1].max_score + detailed[2].max_score + detailed[3].max_score
             + detailed[4].max_score = 100
        /\ \A i \in 1..4 :
             LET n == Len(LincolnGubaCriteria[i].strategies)
                 k == Len(detailed[i].strategies_applied)
                 d == 2 * (detailed[i].score * n - 25 * k)
             IN /\ detailed[i].max_score = 25
                /\ k + Len(detailed[i].missing_strategies) = n
                /\ -n <= d /\ d <= n
                /\ (d = n \/ d = -n) => detailed[i].score % 2 = 0
                /\ k = 0 => detailed[i].score = 0
                /\ k = n => detailed[i].score = 25

\* C10 witness: a Lincoln & Guba assessment with a criterion none of whose
\* strategies is applied, one with some but not all, and one with all
C10_Witness ==
  /\ pc = "responded"
  /\ IsCall(request, "assess_quality")
  /\ "result" \in DOMAIN response
  /\ response.result.content.kind = "assessment"
  /\ response.result.content.criteria_used = Chars("lincoln_guba")
  /\ \E i \in 1..4 : response.result.content.detailed_assessment[i].strategies_applied = <<>>
  /\ \E i \in 1..4 :
        /\ response.result.content.detailed_assessment[i].strategies_applied # <<>>
        /\ response.result.content.detailed_assessment[i].missing_strategies # <<>>
        /\ response.result.content.detailed_assessment[i].score \in 1..24
  /\ \E i \in 1..4 :
        /\ response.result.content.detailed_assessment[i].missing_strategies = <<>>
        /\ response.result.content.detailed_assessment[i].score = 25

C12_ScoreOutOfHundred ==
  (pc = "responded" /\ IsCall(request, "assess_quality") /\ "result" \in DOMAIN response
     /\ response.result.content.kind = "assessment"
     /\ response.result.content.criteria_used
          \in {Chars("lincoln_guba"), Chars("tracy"), Chars("all")})
  => response.result.content.max_score = 100

\* C15: assess_quality with an empty or absent research_description returns
\* the fixed message asking for a description, whatever strategies_used and
\* criteria are, and no assessment (no score, no grade).
C15_EmptyDescriptionGetsMessage ==
  (pc = "responded" /\ IsCall(request, "assess_quality")
     /\ (HasArg(ParamsArguments(request), "research_description")
           => ParamsArguments(request)["research_description"] = <<>>))
  => /\ response.status = 200
     /\ "result" \in DOMAIN response
     /\ response.result.isError = FALSE
     /\ response.result.content.kind = "message"
     /\ DOMAIN response.result.content = {"kind", "text"}
     /\ response.result.content.text
          = <<50672, 44396>> \o Chars(" ") \o <<49444, 47749>>
              \o Chars("(research_description)") \o <<51012>> \o Chars(" ")
              \o <<51077, 47141, 54644, 51452, 49464, 50836>> \o Chars(".")

\* C15 witness: a call with an empty research_description, a strategy list
\* and a criteria selector was answered with the message
C15_Witness ==
  /\ pc = "responded"
  /\ IsCall(request, "assess_quality")
  /\ HasArg(ParamsArguments(request), "research_description")
  /\ ParamsArguments(request)["research_description"] = <<>>
  /\ HasArg(ParamsArguments(request), "strategies_used")
  /\ HasArg(ParamsArguments(request), "criteria")
  /\ "result" \in DOMAIN response
  /\ response.result.content.kind = "message"

\* C14: the grade is determined by overall score and overall maximum alone:
\* A when score/max*100 >= 90, B when >= 80, C when >= 70, D when >= 60,
\* otherwise F, the lower boundary of each band included; and the percentage
\* shown to one decimal place falls in the band of the grade.
C14_GradeBands ==
  (pc = "responded" /\ IsCall(request, "assess_quality")
     /\ "result" \in DOMAIN response
     /\ response.result.content.kind = "assessment")
  => LET c == response.result.content
         s == c.total_score
         m == c.max_score
         p == c.percentage_tenths
     IN /\ m > 0
        /\ c.percentage_num * m = 100 * s * c.percentage_den
        /\ c.grade = "A" <=> 100 * s >= 90 * m
        /\ c.grade = "B" <=> (100 * s >= 80 * m /\ 100 * s < 90 * m)
        /\ c.grade = "C" <=> (100 * s >= 70 * m /\ 100 * s < 80 * m)
        /\ c.grade = "D" <=> (100 * s >= 60 * m /\ 100 * s < 70 * m)
        /\ c.grade = "F" <=> 100 * s < 60 * m
        /\ c.grade = (IF p >= 900 THEN "A" ELSE IF p >= 800 THEN "B"
                      ELSE IF p >= 700 THEN "C" ELSE IF p >= 600 THEN "D" ELSE "F")

\* C14 witness: a score of exactly 90 out of 100 was graded A
C14_Witness ==
  /\ pc = "responded"
  /\ IsCall(request, "assess_quality")
  /\ "result" \in DOMAIN response
  /\ response.result.content.kind = "assessment"
  /\ response.result.content.total_score = 90
  /\ response.result.content.max_score = 100
  /\ response.result.content.percentage_tenths = 900
  /\ response.result.content.grade = "A"

\* the assessments handle_assess_quality reports for the arguments args with
\* the description replaced by d and the strategy list by l
DetailedFor(args, d, l) ==
  handle_assess_quality([x \in DOMAIN args \cup {"research_description", "strategies_used"} |->
                           IF x = "research_description" THEN d
                           ELSE IF x = "strategies_used" THEN l
                           ELSE args[x]]).value.detailed_assessment

\* every variant of the description d and of the strategy list l of args
\* gets the assessments detailed
SameMatching(args, d, l, detailed) ==
  /\ \A v \in Variants(d) : DetailedFor(args, v, l) = detailed
  /\ \A w \in ListVariants(l) : DetailedFor(args, d, w) = detailed

\* C13: indicator matching ignores letter case, whitespace, underscores,
\* hyphens and the synonym pair: a description or a strategies_used list that
\* differs from the one assessed only in these respects gets the same matched
\* and missing sets and the same score for every criterion.
C13_MatchingIgnoresCaseSeparatorsSynonym ==
  (pc = "responded" /\ IsCall(request, "assess_quality")
     /\ "result" \in DOMAIN response
     /\ response.result.content.kind = "assessment")
  => SameMatching(ParamsArguments(request),
                  ParamsArguments(request)["research_description"],
                  IF HasArg(ParamsArguments(request), "strategies_used")
                  THEN ParamsArguments(request)["strategies_used"] ELSE <<>>,
                  response.result.content.detailed_assessment)

\* C13 witness: the description U+C0BC U+AC01 U+AC80 U+C99D ... was assessed
\* and triangulation was matched, as it is with a blank after U+AC01
C13_Witness ==
  /\ pc = "responded"
  /\ IsCall(request, "assess_quality")
  /\ ParamsArguments(request)["research_description"] = Fragments[1]
  /\ ~HasArg(ParamsArguments(request), "strategies_used")
  /\ "result" \in DOMAIN response
  /\ response.result.content.kind = "assessment"
  /\ response.result.content.detailed_assessment[1].criterion = "credibility"
  /\ \E i \in 1..Len(response.result.content.detailed_assessment[1].strategies_applied) :
        response.result.content.detailed_assessment[1].strategies_applied[i]
          = LincolnGubaCriteria[1].strategies[2].korean
  /\ Insert(Fragments[1], 2, 32) \in Variants(Fragments[1])
  /\ \E i \in 1..Len(DetailedFor(ParamsArguments(request), Insert(Fragments[1], 2, 32), <<>>)[1].strategies_applied) :
        DetailedFor(ParamsArguments(request), Insert(Fragments[1], 2, 32), <<>>)[1].strategies_applied[i]
          = LincolnGubaCriteria[1].strategies[2].korean

\* C16: the scorer is deterministic and stateless: the response to an
\* assess_quality call is the one a server that has just been loaded, with no
\* vector store and no optional package, gives to the same body, whatever
\* calls were handled before, and handling the call leaves the vector store
\* as it was.
C16_ScorerStateless ==
  [][(pc = "pending" /\ IsCall(request, "assess_quality") /\ pc' = "responded")
       => /\ response' = mcp_endpoint(request, <<>>, FALSE, FALSE, NoEnv).response
          /\ rag' = <<>>
          /\ vector_store' = vector_store]_vars

\* C16 witness: an assessment was returned by a server whose vector store
\* had served a search before
C16_Witness ==
  /\ pc = "responded"
  /\ IsCall(request, "assess_quality")
  /\ "result" \in DOMAIN response
  /\ response.result.content.kind = "assessment"
  /\ vector_store # <<>>
  /\ vector_store[1]._encoder = "SentenceTransformer"
  /\ vector_store[1]._collection = "Collection"

\* C17: a request whose method is none of initialize, tools/list and
\* tools/call gets a JSON-RPC error with code -32601 and the id of the request
\* (null when it has none); a tools/call that names no tool of the catalog
\* gets a result, not a JSON-RPC error, flagged isError and naming the
\* unknown tool.
C17_UnknownMethodAndTool ==
  (pc = "responded" /\ "malformed" \notin DOMAIN request)
  => /\ request.method \notin {"initialize", "tools/list", "tools/call"}
          => /\ response.status = 200
             /\ DOMAIN response = {"status", "error", "id"}
             /\ response.error.code = -32601
             /\ response.id = (IF "id" \in DOMAIN request THEN request.id ELSE NoId)
     /\ (request.method = "tools/call"
           /\ \A i \in 1..Len(TOOLS) : ParamsName(request) # TOOLS[i])
          => /\ response.status = 200
             /\ DOMAIN response = {"status", "result", "id"}
             /\ response.result.isError = TRUE
             /\ response.result.content.kind = "unknown_tool"
             /\ response.result.content.name = ParamsName(request)
             /\ response.id = (IF "id" \in DOMAIN request THEN request.id ELSE NoId)

\* C17 witness: the method ping with id 1 was answered with the error -32601
\* and the id 1
C17_Witness ==
  /\ pc = "responded"
  /\ "malformed" \notin DOMAIN request
  /\ request.method = "ping"
  /\ "id" \in DOMAIN request
  /\ request.id = 1
  /\ "error" \in DOMAIN response
  /\ response.error.code = -32601
  /\ response.id = 1

\* the body cannot be parsed, or the tool handler called for it raises on
\* its arguments and the tables
Raises(body) ==
  \/ "malformed" \in DOMAIN body
  \/ /\ body.method = "tools/call"
     /\ handle_tool_call(ParamsName(body), ParamsArguments(body), <<>>, FALSE, FALSE,
                         NoEnv).out.ret = "raise"

\* the request bodies for which an exception is raised inside mcp_endpoint
RaisingRequests == {body \in Requests : Raises(body)}

\* C18: every request gets exactly one response, which carries either a
\* result or an error; when parsing the body or a handler raises, whatever
\* the state of the vector store, the response is the JSON-RPC error -32603
\* with id null and HTTP status 400, and otherwise the status is 200: no
\* exception leaves mcp_endpoint.
C18_ExceptionsBecomeInternalError ==
  pc = "responded"
  => /\ response # <<>>
     /\ ("result" \in DOMAIN response) # ("error" \in DOMAIN response)
     /\ response.status = (IF request \in RaisingRequests THEN 400 ELSE 200)
     /\ response.status = 400
          => /\ DOMAIN response = {"status", "error", "id"}
             /\ response.error.code = -32603
             /\ response.id = NoId

\* C18 witness: a tools/call with id 1 whose handler raised was answered with
\* the error -32603 and id null
C18_Witness ==
  /\ pc = "responded"
  /\ "malformed" \notin DOMAIN request
  /\ request.method = "tools/call"
  /\ ParamsName(request) \in Handlers
  /\ request.id = 1
  /\ response.status = 400
  /\ "error" \in DOMAIN response
  /\ response.error.code = -32603
  /\ response.id = NoId

\* C19: the catalog returned by tools/list has exactly 12 entries with
\* distinct names, and the catalog names are the names handle_tool_call
\* dispatches: a tools/call is answered with the unknown-tool result exactly
\* when its name is not in the catalog, and every handler is listed.
C19_CatalogMatchesHandlers ==
  (pc = "responded" /\ "malformed" \notin DOMAIN request)
  => /\ request.method = "tools/list"
          => /\ "result" \in DOMAIN response
             /\ Len(response.result.tools) = 12
             /\ \A i, j \in 1..Len(response.result.tools) :
                   response.result.tools[i] = response.result.tools[j] => i = j
             /\ {response.result.tools[i] : i \in 1..Len(response.result.tools)} = Handlers
     /\ (request.method = "tools/call" /\ "result" \in DOMAIN response)
          => (response.result.isError
                <=> \A i \in 1..Len(TOOLS) : ParamsName(request) # TOOLS[i])

\* C19 witness: tools/list was answered with the catalog, guide_revision its
\* twelfth and last entry
C19_Witness ==
  /\ pc = "responded"
  /\ "malformed" \notin DOMAIN request
  /\ request.method = "tools/list"
  /\ "result" \in DOMAIN response
  /\ Len(response.result.tools) = 12
  /\ response.result.tools[12] = "guide_revision"

\* C20: after startup, handling a request never changes shared state: the
\* global vector_store with its client, collection and encoder handles and
\* the availability flags are the same before and after the request (the
\* knowledge tables are constants).
C20_RequestsLeaveSharedStateUnchanged ==
  [][(pc = "pending" /\ pc' = "responded")
       => /\ vector_store' = vector_store
          /\ CHROMADB_AVAILABLE' = CHROMADB_AVAILABLE
          /\ SENTENCE_TRANSFORMER_AVAILABLE' = SENTENCE_TRANSFORMER_AVAILABLE]_vars

\* the place of an exact-match block in the order of the tables and of their keys
BlockRank(b) ==
  LET t == CHOOSE i \in 1..Len(SearchedTables) : SearchedTables[i].name = b.table
  IN 100 * t + KeyIndex(SearchedTables[t].table, Chars(b.key))

\* the blocks are in the order of the tables, and no exact-match block follows
\* a block of the vector search
InSearchOrder(blocks) ==
  \A k, l \in 1..Len(blocks) :
     k < l => /\ blocks[k].section = "rag" => blocks[l].section = "rag"
              /\ (blocks[k].section = "exact" /\ blocks[l].section = "exact")
                   => BlockRank(blocks[k]) < BlockRank(blocks[l])
              /\ (blocks[k].section = "rag" /\ blocks[l].section = "rag")
                   => blocks[k].number < blocks[l].number

\* C21: in the output of search_knowledge the exact-match entries are in
\* table order (paradigms, traditions, coding, journals, rejection patterns)
\* and within a table in key order, and all of them come before the entries
\* of the vector search; for the query U+D604 U+C0C1 U+D559 without category
\* the phenomenology tradition is among the exact-match entries.
C21_ExactMatchesInTableOrder ==
  (pc = "responded" /\ IsCall(request, "search_knowledge")
     /\ "result" \in DOMAIN response
     /\ response.result.content.kind = "search_results")
  => /\ InSearchOrder(SearchBlocks(response.result.content))
     /\ (ArgOr(ParamsArguments(request), "query", <<>>) = <<54788, 49345, 54617>>
           /\ ~HasArg(ParamsArguments(request), "category"))
          => \E k \in 1..Len(response.result.content.exact) :
                response.result.content.exact[k]
                  = [table |-> "TRADITIONS", key |-> "phenomenology"]

\* C21 witness: the query U+D604 U+C0C1 U+D559 without category was answered
\* with the constructivism paradigm, then the phenomenology tradition, then
\* hits of the vector search
C21_Witness ==
  /\ pc = "responded"
  /\ IsCall(request, "search_knowledge")
  /\ ArgOr(ParamsArguments(request), "query", <<>>) = <<54788, 49345, 54617>>
  /\ ~HasArg(ParamsArguments(request), "category")
  /\ "result" \in DOMAIN response
  /\ response.result.content.kind = "search_results"
  /\ response.result.content.exact
       = <<[table |-> "PARADIGMS", key |-> "constructivism"],
           [table |-> "TRADITIONS", key |-> "phenomenology"]>>
  /\ Len(response.result.content.rag) = 3

\* a hit of the vector search belongs to the category of the input schema:
\* by the source or the category its document was stored with
HitInCategory(hit, category) ==
  \/ Chars(hit.source) = category
  \/ Chars(hit.category) = category
  \/ (category = Chars("rejection") /\ hit.source = "rejection_patterns")

\* C29: when search_knowledge is called with a query and a category of the
\* input schema, every entry of the response belongs to that category, the exact-match entries and the
\* entries of the vector search alike; the latter are at most the three best
\* ranked hits, in rank order.
C29_CategoryFilterCoversAllEntries ==
  (pc = "responded" /\ IsCall(request, "search_knowledge")
     /\ HasArg(ParamsArguments(request), "category")
     /\ ~ViolatesSchema("search_knowledge", ParamsArguments(request))
     /\ "result" \in DOMAIN response
     /\ response.result.content.kind = "search_results")
  => /\ \A k \in 1..Len(response.result.content.exact) :
           \E i \in 1..Len(SearchedTables) :
              /\ SearchedTables[i].name = response.result.content.exact[k].table
              /\ Selected(ParamsArguments(request),
                          <<"paradigms", "traditions", "coding", "journals", "rejection">>[i])
     /\ Len(response.result.content.rag) <= 3
     /\ \A k \in 1..Len(response.result.content.rag) :
           /\ response.result.content.rag[k].rank = k
           /\ HitInCategory(response.result.content.rag[k],
                            ParamsArguments(request)["category"])

\* the elements of a sequence
Range(s) == {s[i] : i \in 1..Len(s)}

\* the assessment a reported for the Tracy criterion c is well formed
TracyEntry(a, c) ==
  /\ a.criterion = c.criterion
  /\ a.strategies_applied
       = SelectSeq(c.indicators, LAMBDA ind : ind \in Range(a.strategies_applied))
  /\ a.missing_strategies
       = SubSeq(SelectSeq(c.indicators, LAMBDA ind : ind \notin Range(a.strategies_applied)),
                1, Min(3, Len(c.indicators) - Len(a.strategies_applied)))
  /\ Range(a.missing_strategies) \cap Range(a.strategies_applied) = {}
  /\ Len(a.recommendations) <= 1
  /\ a.recommendations # <<>> <=> (a.score < 10 /\ Len(a.strategies_applied) < 3)

\* the assessments of the Tracy criteria among the assessments reported
TracyPart(content) ==
  IF content.criteria_used = Chars("tracy") THEN content.detailed_assessment
  ELSE IF content.criteria_used = Chars("all")
  THEN SubSeq(content.detailed_assessment, Len(LincolnGubaCriteria) + 1,
              Len(content.detailed_assessment))
  ELSE <<>>

\* C22: for each Tracy criterion the matched indicators and the others
\* partition the indicator list, in list order; the missing list reported is
\* the first three unmatched indicators; there is at most one recommendation,
\* and there is one exactly when the score is below 10 and fewer than three
\* indicators matched.
C22_TracyMissingAndRecommendations ==
  (pc = "responded" /\ IsCall(request, "assess_quality")
     /\ "result" \in DOMAIN response
     /\ response.result.content.kind = "assessment"
     /\ TracyPart(response.result.content) # <<>>)
  => /\ Len(TracyPart(response.result.content)) = Len(TracyCriteria)
     /\ \A i \in 1..Len(TracyCriteria) :
           TracyEntry(TracyPart(response.result.content)[i], TracyCriteria[i])

\* C22 witness: a Tracy criterion with three indicators matched and a score
\* below 10 got no recommendation, and another with two matched got one and
\* three missing indicators
C22_Witness ==
  /\ pc = "responded"
  /\ IsCall(request, "assess_quality")
  /\ "result" \in DOMAIN response
  /\ response.result.content.kind = "assessment"
  /\ \E i \in 1..Len(TracyPart(response.result.content)) :
        /\ Len(TracyPart(response.result.content)[i].strategies_applied) >= 3
        /\ TracyPart(response.result.content)[i].score < 10
        /\ TracyPart(response.result.content)[i].recommendations = <<>>
  /\ \E i \in 1..Len(TracyPart(response.result.content)) :
        /\ Len(TracyPart(response.result.content)[i].strategies_applied) = 2
        /\ Len(TracyPart(response.result.content)[i].recommendations) = 1
        /\ Len(TracyPart(response.result.content)[i].missing_strategies) = 3

\* the assessment a reported for the Lincoln & Guba criterion c is well formed
LincolnGubaEntry(a, c) ==
  /\ a.criterion = c.criterion
  /\ a.strategies_applied
       = SelectSeq([i \in 1..Len(c.strategies) |-> c.strategies[i].korean],
                   LAMBDA k : k \in Range(a.strategies_applied))
  /\ a.missing_strategies
       = SelectSeq([i \in 1..Len(c.strategies) |-> c.strategies[i].korean],
                   LAMBDA k : k \notin Range(a.strategies_applied))
  /\ Len(a.strategies_applied) + Len(a.missing_strategies) = Len(c.strategies)
  /\ a.recommendations
       = [i \in 1..Len(a.missing_strategies) |->
            LincolnGubaRecommendation(a.missing_strategies[i])]

\* the assessments of the Lincoln & Guba criteria among the assessments reported
LincolnGubaPart(content) ==
  IF content.criteria_used = Chars("lincoln_guba") \/ content.criteria_used = Chars("all")
  THEN SubSeq(content.detailed_assessment, 1, Len(LincolnGubaCriteria))
  ELSE <<>>

\* C23: for each Lincoln & Guba criterion every strategy is either among the
\* applied or among the missing strategies, both in list order, and there is
\* exactly one recommendation per missing strategy, in the same order, and
\* none when nothing is missing.
C23_LincolnGubaPartitionAndRecommendations ==
  (pc = "responded" /\ IsCall(request, "assess_quality")
     /\ "result" \in DOMAIN response
     /\ response.result.content.kind = "assessment"
     /\ LincolnGubaPart(response.result.content) # <<>>)
  => /\ Len(LincolnGubaPart(response.result.content)) = Len(LincolnGubaCriteria)
     /\ \A i \in 1..Len(LincolnGubaCriteria) :
           LincolnGubaEntry(LincolnGubaPart(response.result.content)[i],
                            LincolnGubaCriteria[i])

\* C23 witness: one criterion with strategies applied and two or more
\* missing, each with its recommendation, and one with nothing missing and
\* no recommendation
C23_Witness ==
  /\ pc = "responded"
  /\ IsCall(request, "assess_quality")
  /\ "result" \in DOMAIN response
  /\ response.result.content.kind = "assessment"
  /\ \E i \in 1..Len(LincolnGubaPart(response.result.content)) :
        /\ LincolnGubaPart(response.result.content)[i].strategies_applied # <<>>
        /\ Len(LincolnGubaPart(response.result.content)[i].missing_strategies) >= 2
        /\ Len(LincolnGubaPart(response.result.content)[i].recommendations)
             = Len(LincolnGubaPart(response.result.content)[i].missing_strategies)
  /\ \E i \in 1..Len(LincolnGubaPart(response.result.content)) :
        /\ LincolnGubaPart(response.result.content)[i].missing_strategies = <<>>
        /\ LincolnGubaPart(response.result.content)[i].recommendations = <<>>

\* the priority action of a criterion: its name, then its first
\* recommendation, or the generic text when it has none
PriorityAction(a) ==
  a.korean \o <<32, 44060, 49440, 58, 32>>
    \o (IF Len(a.recommendations) >= 1 THEN a.recommendations[1]
        ELSE <<51204, 47029, 32, 52628, 44032, 32, 54596, 50836>>)

\* actions are the priority actions of the first three assessments of weak,
\* which are the first weaknesses
FirstThreeOf(actions, weak, weaknesses) ==
  /\ Len(actions) = Min(3, Len(weak))
  /\ Len(weaknesses) = Len(weak)
  /\ \A i \in 1..Len(actions) :
        /\ actions[i] = PriorityAction(weak[i])
        /\ SubSeq(actions[i], 1, Len(weaknesses[i])) = weaknesses[i]

\* C24: priority_actions lists, in evaluation order, the first three
\* criteria whose score is below half of the maximum and no others, each with
\* its first recommendation or, when it has none, the generic text; it has
\* min(3, number of weaknesses) entries, for the first weaknesses in order.
C24_PriorityActions ==
  (pc = "responded" /\ IsCall(request, "assess_quality")
     /\ "result" \in DOMAIN response
     /\ response.result.content.kind = "assessment")
  => FirstThreeOf(response.result.content.priority_actions,
                  SelectSeq(response.result.content.detailed_assessment,
                            LAMBDA a : 2 * a.score < a.max_score),
                  response.result.content.weaknesses)

\* C24 witness: more than three weaknesses, three priority actions, the first
\* of them with the generic text
C24_Witness ==
  /\ pc = "responded"
  /\ IsCall(request, "assess_quality")
  /\ "result" \in DOMAIN response
  /\ response.result.content.kind = "assessment"
  /\ Len(response.result.content.weaknesses) > 3
  /\ Len(response.result.content.priority_actions) = 3
  /\ response.result.content.priority_actions[1]
       = response.result.content.weaknesses[1]
           \o <<32, 44060, 49440, 58, 32, 51204, 47029, 32, 52628, 44032, 32, 54596, 50836>>
  /\ response.result.content.priority_actions[2]
       # response.result.content.weaknesses[2]
           \o <<32, 44060, 49440, 58, 32, 51204, 47029, 32, 52628, 44032, 32, 54596, 50836>>

\* the names of the assessments of a sequence
Koreans(assessments) == [i \in 1..Len(assessments) |-> assessments[i].korean]

\* C25: strengths are exactly the assessed criteria with score/max_score >=
\* 0.7 and weaknesses exactly those with score/max_score < 0.5, both in
\* evaluation order; no criterion is in both lists and a criterion with a
\* ratio from 0.5 up to but not including 0.7 is in neither.
C25_StrengthsAndWeaknesses ==
  (pc = "responded" /\ IsCall(request, "assess_quality")
     /\ "result" \in DOMAIN response
     /\ response.result.content.kind = "assessment")
  => /\ response.result.content.strengths
          = Koreans(SelectSeq(response.result.content.detailed_assessment,
                              LAMBDA a : 10 * a.score >= 7 * a.max_score))
     /\ response.result.content.weaknesses
          = Koreans(SelectSeq(response.result.content.detailed_assessment,
                              LAMBDA a : 2 * a.score < a.max_score))
     /\ Range(response.result.content.strengths)
          \cap Range(response.result.content.weaknesses) = {}
     /\ \A i \in 1..Len(response.result.content.detailed_assessment) :
           LET a == response.result.content.detailed_assessment[i]
           IN (2 * a.score >= a.max_score /\ 10 * a.score < 7 * a.max_score)
                => a.korean \notin Range(response.result.content.strengths)
                                     \cup Range(response.result.content.weaknesses)

\* C25 witness: an assessment with a strength, a weakness and a criterion
\* that is neither
C25_Witness ==
  /\ pc = "responded"
  /\ IsCall(request, "assess_quality")
  /\ "result" \in DOMAIN response
  /\ response.result.content.kind = "assessment"
  /\ response.result.content.strengths # <<>>
  /\ response.result.content.weaknesses # <<>>
  /\ \E i \in 1..Len(response.result.content.detailed_assessment) :
        /\ 2 * response.result.content.detailed_assessment[i].score
             >= response.result.content.detailed_assessment[i].max_score
        /\ 10 * response.result.content.detailed_assessment[i].score
             < 7 * response.result.content.detailed_assessment[i].max_score

\* C27: scores are rounded half to even: a Tracy criterion with an even
\* number of indicators (8, 10 or 12) of which exactly half are matched has
\* k/n*13 = 6.5 and the score 6, not 7, so its score is below half of the
\* maximum and it is reported as a weakness.
C27_HalfMatchedRoundsToEven ==
  (pc = "responded" /\ IsCall(request, "assess_quality")
     /\ "result" \in DOMAIN response
     /\ response.result.content.kind = "assessment")
  => \A i \in 1..Len(TracyPart(response.result.content)) :
        2 * Len(TracyPart(response.result.content)[i].strategies_applied)
          = Len(TracyCriteria[i].indicators)
        => /\ Len(TracyCriteria[i].indicators) \in {8, 10, 12}
           /\ TracyPart(response.result.content)[i].score = 6
           /\ TracyPart(response.result.content)[i].max_score = 13
           /\ TracyPart(response.result.content)[i].korean
                \in Range(response.result.content.weaknesses)

\* C27 witness: six of the twelve indicators of a Tracy criterion were
\* matched, and it has the score 6 and is a weakness
C27_Witness ==
  /\ pc = "responded"
  /\ IsCall(request, "assess_quality")
  /\ "result" \in DOMAIN response
  /\ response.result.content.kind = "assessment"
  /\ \E i \in 1..Len(TracyPart(response.result.content)) :
        /\ Len(TracyCriteria[i].indicators) = 12
        /\ Len(TracyPart(response.result.content)[i].strategies_applied) = 6
        /\ TracyPart(response.result.content)[i].score = 6
        /\ TracyPart(response.result.content)[i].korean
             \in Range(response.result.content.weaknesses)

\* C30: assess_quality with a non-empty description and a criteria value
\* other than lincoln_guba, tracy and all does not fail: it assesses no
\* criterion and reports the score 0/0, the percentage 0.0 computed without a
\* division by zero, the grade F and empty strengths, weaknesses and
\* priority actions.
C30_UnknownCriteriaScoresNothing ==
  (pc = "responded" /\ IsCall(request, "assess_quality")
     /\ ArgOr(ParamsArguments(request), "research_description", <<>>) # <<>>
     /\ ArgOr(ParamsArguments(request), "criteria", Chars("all"))
          \notin {Chars("lincoln_guba"), Chars("tracy"), Chars("all")})
  => /\ response.status = 200
     /\ "result" \in DOMAIN response
     /\ response.result.isError = FALSE
     /\ response.result.content.kind = "assessment"
     /\ response.result.content.criteria_used = ParamsArguments(request)["criteria"]
     /\ response.result.content.detailed_assessment = <<>>
     /\ response.result.content.total_score = 0
     /\ response.result.content.max_score = 0
     /\ response.result.content.percentage_num = 0
     /\ response.result.content.percentage_den > 0
     /\ response.result.content.percentage_tenths = 0
     /\ response.result.content.grade = "F"
     /\ response.result.content.strengths = <<>>
     /\ response.result.content.weaknesses = <<>>
     /\ response.result.content.priority_actions = <<>>

\* C30 witness: a description with matching keywords and a strategy list
\* were assessed under the criteria value marxism
C30_Witness ==
  /\ pc = "responded"
  /\ IsCall(request, "assess_quality")
  /\ ArgOr(ParamsArguments(request), "research_description", <<>>) = Fragments[2]
  /\ HasArg(ParamsArguments(request), "strategies_used")
  /\ ArgOr(ParamsArguments(request), "criteria", Chars("all")) = Chars("marxism")
  /\ "result" \in DOMAIN response
  /\ response.result.content.kind = "assessment"
  /\ response.result.content.max_score = 0

\* the sub-list of l made of its elements at the positions I, in order
SubList(l, I) ==
  [j \in 1..Cardinality(I) |-> l[CHOOSE i \in I : Cardinality({x \in I : x < i}) = j - 1]]

\* the result of handle_assess_quality for the arguments args with the
\* strategy list l
ResultFor(args, l) ==
  handle_assess_quality([x \in DOMAIN args \cup {"strategies_used"} |->
                           IF x = "strategies_used" THEN l ELSE args[x]]).value

\* no criterion of the result r has a matched strategy or a score that the
\* result content lacks or falls short of, nor is the overall score of r higher
NotAbove(r, content) ==
  /\ Len(r.detailed_assessment) = Len(content.detailed_assessment)
  /\ \A i \in 1..Len(r.detailed_assessment) :
        /\ Range(r.detailed_assessment[i].strategies_applied)
             \subseteq Range(content.detailed_assessment[i].strategies_applied)
        /\ r.detailed_assessment[i].score <= content.detailed_assessment[i].score
  /\ r.total_score <= content.total_score

\* C28: adding strings to strategies_used never lowers a result: for the
\* same description and criteria, under every sub-list of the list assessed
\* each criterion has a subset of the matched strategies and at most the
\* score, and the overall score is at most the one reported.
C28_MoreStrategiesNeverLower ==
  (pc = "responded" /\ IsCall(request, "assess_quality")
     /\ "result" \in DOMAIN response
     /\ response.result.content.kind = "assessment"
     /\ HasArg(ParamsArguments(request), "strategies_used"))
  => \A I \in SUBSET (1..Len(ParamsArguments(request)["strategies_used"])) :
        NotAbove(ResultFor(ParamsArguments(request),
                           SubList(ParamsArguments(request)["strategies_used"], I)),
                 response.result.content)

\* C28 witness: a list of two strategy strings was assessed and scored
\* higher than its sub-list of the second string alone
C28_Witness ==
  /\ pc = "responded"
  /\ IsCall(request, "assess_quality")
  /\ "result" \in DOMAIN response
  /\ response.result.content.kind = "assessment"
  /\ HasArg(ParamsArguments(request), "strategies_used")
  /\ Len(ParamsArguments(request)["strategies_used"]) = 2
  /\ ResultFor(ParamsArguments(request),
               SubList(ParamsArguments(request)["strategies_used"], {2})).total_score
       < response.result.content.total_score
  /\ ResultFor(ParamsArguments(request),
               SubList(ParamsArguments(request)["strategies_used"], {2})).total_score
       > ResultFor(ParamsArguments(request), <<>>).total_score

\* C26: after any sequence of init_chromadb calls, the last call returned
\* True if and only if the global vector_store is not None, so that a search
\* after a reported failure gets the empty list from search_chromadb.
C26_InitResultMatchesVectorStore ==
  init_result # <<>>
  => /\ init_result[1].value <=> vector_store # <<>>
     /\ (pc = "responded" /\ rag # <<>> /\ ~init_result[1].value)
          => rag[1].out.value = <<>>
====
